---- MODULE Spec2Model ----
(***************************************************************************)
(* A model of the CAD -> GIS converter (backend/dxf_processor.py and       *)
(* backend/main.py).                                                       *)
(*                                                                         *)
(* Numbers.  The program computes in IEEE doubles.  The model computes in  *)
(* fixed point: the integer n stands for n / Unit, every product is        *)
(* rounded to the nearest integer (RoundDiv), so a computation has a       *)
(* rounding error as the program's has, only coarser.  The two non-finite  *)
(* doubles the validation code tests for are the two codes NaN and Inf.    *)
(*                                                                         *)
(* Libraries.  shapely/GEOS, geopandas and pyproj are outside the          *)
(* repository.  Their deterministic, documented behaviour is computed      *)
(* (is_empty, is_valid, transform, to_json/from_features); what a call     *)
(* returns on an invalid polygon (buffer(0)) and whether a call raises are *)
(* attributes of the input chosen in Init, one for every outcome the       *)
(* library can produce.                                                    *)
(***************************************************************************)
EXTENDS Integers, Sequences, FiniteSets, TLC

VARIABLES
    \* ---- DXFProcessor.convert_dxf_to_gis ----
    doc,                 \* the modelspace: the entities in file order
    skip_invalid,        \* convert_dxf_to_gis(skip_invalid=...)
    source_crs,          \* convert_dxf_to_gis(source_crs=...), None when absent
    target_crs,          \* convert_dxf_to_gis(target_crs=...)
    output_format,       \* convert_dxf_to_gis(output_format=...)
    cpc,                 \* position in convert_dxf_to_gis
    idx,                 \* the entity the extraction loop is at
    geometries_by_layer, \* _extract_geometries_by_layer: layer -> features
    total_count,         \* _extract_geometries_by_layer: entities seen
    skipped_count,       \* _extract_geometries_by_layer: entities skipped
    cres,                \* what convert_dxf_to_gis returned or raised
    \* ---- DXFProcessor.apply_scale_to_geojson ----
    geojson_data,        \* the first call's argument
    scale_factor,        \* the first call's factor
    scale_format,        \* the first call's output_format
    spc,                 \* position of the caller (first call, inverse call)
    sres,                \* result of the first call
    sback,               \* result of the call with the inverse factor
    \* ---- transform_coordinates ----
    geometries,          \* the argument list of geometry dicts
    tsource,             \* source_crs
    ttarget,             \* target_crs
    tpc,                 \* position of the caller
    tres,                \* what transform_coordinates returned or raised
    \* ---- detect_coordinate_system_type ----
    dlayers,             \* the argument geometries_by_layer
    dunit,               \* how many integers of dlayers make one drawing unit
    dpc,                 \* position of the caller
    dres,                \* the dict returned
    \* ---- main.py: the job store and the background tasks ----
    jobs,                \* the dict `jobs`: job id -> job record
    uploads,             \* uploads/<id>_<name>: the drawing in each file
    outputs,             \* outputs/<id>.geojson: job id -> what was saved
    tasks,               \* the background tasks scheduled and not finished
    status_log           \* per job, the values assigned to its status so far

convVars  == <<doc, skip_invalid, source_crs, target_crs, output_format, cpc,
               idx, geometries_by_layer, total_count, skipped_count, cres>>
scaleVars == <<geojson_data, scale_factor, scale_format, spc, sres, sback>>
projVars  == <<geometries, tsource, ttarget, tpc, tres>>
detVars   == <<dlayers, dunit, dpc, dres>>
jobVars   == <<jobs, uploads, outputs, tasks, status_log>>
vars      == <<convVars, scaleVars, projVars, detVars, jobVars>>

-----------------------------------------------------------------------------
(* Numbers *)

\* Fixed point: the integer n stands for the real number n / Unit.
Unit == 1000

\* Codes of the non-finite doubles (outside every finite value of the model).
NaN == 900000001
Inf == 900000002

\* math.isfinite
isfinite(x) == x # NaN /\ x # Inf

Abs(x) == IF x < 0 THEN -x ELSE x

\* a / b rounded to the nearest integer (b > 0), halves away from zero
RoundDiv(a, b) ==
    IF a >= 0 THEN (2 * a + b) \div (2 * b)
    ELSE -((2 * (-a) + b) \div (2 * b))

\* The product of two fixed-point numbers, rounded as a double product is.
Mul(a, b) == RoundDiv(a * b, Unit)

\* math.cos and math.sin at the angles 2*pi*k/64, k = 0..64, times Unit.  The
\* doubles math.sin(math.pi), math.cos(3*math.pi/2) and math.sin(2*math.pi)
\* are not 0 but about one unit in the last place of 1.0 (1.2e-16, -1.8e-16,
\* -2.4e-16): the tables keep them as one unit of the model.
CosTab ==
    << 1000, 995, 981, 957, 924, 882, 831, 773, 707, 634, 556, 471, 383,
       290, 195, 98, 0, -98, -195, -290, -383, -471, -556, -634, -707, -773,
       -831, -882, -924, -957, -981, -995, -1000, -995, -981, -957, -924,
       -882, -831, -773, -707, -634, -556, -471, -383, -290, -195, -98, -1,
       98, 195, 290, 383, 471, 556, 634, 707, 773, 831, 882, 924, 957, 981,
       995, 1000 >>

SinTab ==
    << 0, 98, 195, 290, 383, 471, 556, 634, 707, 773, 831, 882, 924, 957,
       981, 995, 1000, 995, 981, 957, 924, 882, 831, 773, 707, 634, 556,
       471, 383, 290, 195, 98, 1, -98, -195, -290, -383, -471, -556, -634,
       -707, -773, -831, -882, -924, -957, -981, -995, -1000, -995, -981,
       -957, -924, -882, -831, -773, -707, -634, -556, -471, -383, -290,
       -195, -98, -1 >>

\* k counts sixty-fourths of a turn, 0 <= k <= 64
cos(k) == CosTab[k + 1]
sin(k) == SinTab[k + 1]

-----------------------------------------------------------------------------
(* Sequences *)

Range(s) == {s[i] : i \in DOMAIN s}

SeqsUpTo(S, n) == UNION {[1..k -> S] : k \in 0..n}

RECURSIVE Flatten(_)
Flatten(ss) == IF ss = <<>> THEN <<>> ELSE Head(ss) \o Flatten(Tail(ss))

-----------------------------------------------------------------------------
(* shapely / GEOS: geometries *)

\* A geometry: its type and its coordinate sequence (the exterior ring of a
\* polygon; for a MultiPolygon the ring of one part).  Two more fields say
\* what the library does with it: `fix`, what buffer(0) gives when it is an
\* invalid polygon, and `tx`, what shapely.ops.transform does on it ("ok":
\* maps the coordinates, "raise": raises, "empty": returns an empty geometry).
None == [kind |-> "None", pts |-> <<>>, fix |-> "na", tx |-> "ok"]

Geom(kind, pts, fix) == [kind |-> kind, pts |-> pts, fix |-> fix, tx |-> "ok"]

\* shapely.geometry.Point(x, y)
Point(x, y) == Geom("Point", <<<<x, y>>>>, "na")

\* shapely.geometry.LineString(points)
LineString(points, fix) == Geom("LineString", points, fix)

\* shapely.geometry.Polygon(points): a ring that is not closed is closed by
\* the constructor (LinearRing appends the first point).
Polygon(points, fix) ==
    Geom("Polygon",
         IF points # <<>> /\ points[1] # points[Len(points)]
             THEN Append(points, points[1]) ELSE points,
         fix)

EmptyPolygon == Geom("Polygon", <<>>, "na")

\* geom.is_empty
is_empty(g) == g.pts = <<>>

\* bool(geom): shapely geometries are falsy when empty, None is falsy
Truthy(g) == g # None /\ ~is_empty(g)

\* consecutive repeated points removed
RECURSIVE Dedupe(_)
Dedupe(ps) ==
    IF Len(ps) < 2 THEN ps
    ELSE IF ps[1] = ps[2] THEN Dedupe(Tail(ps))
    ELSE <<ps[1]>> \o Dedupe(Tail(ps))

\* twice the signed area of the triangle a, b, c
Cross(a, b, c) ==
    (b[1] - a[1]) * (c[2] - a[2]) - (b[2] - a[2]) * (c[1] - a[1])

Sign(x) == IF x > 0 THEN 1 ELSE IF x < 0 THEN -1 ELSE 0

Min2(a, b) == IF a < b THEN a ELSE b
Max2(a, b) == IF a > b THEN a ELSE b

\* c, collinear with a and b, lies on the closed segment a-b
OnSegment(a, b, c) ==
    /\ Min2(a[1], b[1]) <= c[1] /\ c[1] <= Max2(a[1], b[1])
    /\ Min2(a[2], b[2]) <= c[2] /\ c[2] <= Max2(a[2], b[2])

\* the closed segments p1-p2 and p3-p4 have a common point
SegmentsMeet(p1, p2, p3, p4) ==
    LET d1 == Sign(Cross(p3, p4, p1))
        d2 == Sign(Cross(p3, p4, p2))
        d3 == Sign(Cross(p1, p2, p3))
        d4 == Sign(Cross(p1, p2, p4))
    IN  \/ (d1 * d2 < 0 /\ d3 * d4 < 0)
        \/ (d1 = 0 /\ OnSegment(p3, p4, p1))
        \/ (d2 = 0 /\ OnSegment(p3, p4, p2))
        \/ (d3 = 0 /\ OnSegment(p1, p2, p3))
        \/ (d4 = 0 /\ OnSegment(p1, p2, p4))

\* the segments a-b and b-c, which share b, share more than b
FoldsBack(a, b, c) ==
    /\ Cross(a, b, c) = 0
    /\ (a[1] - b[1]) * (c[1] - b[1]) + (a[2] - b[2]) * (c[2] - b[2]) > 0

\* GEOS IsValidOp on a polygon shell: at least 4 points once repeated points
\* are dropped, and no segment meets another but for neighbours at their
\* common end point.
RingIsValid(ring) ==
    LET r == Dedupe(ring)
        n == Len(r) - 1      \* segments: i runs r[i] - r[i+1]
    IN  /\ Len(r) >= 4
        /\ r[1] = r[Len(r)]
        /\ \A i \in 1..n : \A j \in (i + 1)..n :
              IF j = i + 1
                  THEN ~FoldsBack(r[i], r[i + 1], r[j + 1])
              ELSE IF i = 1 /\ j = n
                  THEN ~FoldsBack(r[n], r[1], r[2])
              ELSE ~SegmentsMeet(r[i], r[i + 1], r[j], r[j + 1])

\* geom.is_valid (GEOS IsValidOp): an empty geometry is valid, a LineString
\* needs two distinct points, a polygon a simple shell.
is_valid(g) ==
    IF is_empty(g) THEN TRUE
    ELSE IF g.kind = "Point" THEN TRUE
    ELSE IF g.kind = "LineString" THEN Cardinality(Range(g.pts)) >= 2
    ELSE RingIsValid(g.pts)

\* A triangle on three vertices of the ring that are not collinear, when
\* there is one: stands for the valid polygon a repair keeps.
Triangles(ps) ==
    {<<ps[i], ps[j], ps[k], ps[i]>> :
        <<i, j, k>> \in {t \in (DOMAIN ps) \X (DOMAIN ps) \X (DOMAIN ps) :
                            /\ t[1] < t[2] /\ t[2] < t[3]
                            /\ Cross(ps[t[1]], ps[t[2]], ps[t[3]]) # 0}}

FixOutcomes == {"raise", "empty", "polygon", "multipolygon", "invalid"}

\* geom.buffer(0).  The buffer of a point or a line at distance 0 is the
\* empty polygon; a valid polygon is kept; what an invalid polygon becomes
\* is the library's business and is read off the geometry's `fix`.
\* Result: [raised, geom].
buffer0(g) ==
    IF g.kind \in {"Point", "LineString"} \/ is_empty(g)
        THEN [raised |-> FALSE, geom |-> EmptyPolygon]
    ELSE IF is_valid(g) THEN [raised |-> FALSE, geom |-> g]
    ELSE IF g.fix = "raise" THEN [raised |-> TRUE, geom |-> None]
    ELSE IF g.fix = "invalid" THEN [raised |-> FALSE, geom |-> g]
    ELSE IF g.fix = "empty" \/ Triangles(g.pts) = {}
        THEN [raised |-> FALSE, geom |-> EmptyPolygon]
    ELSE LET tri == CHOOSE t \in Triangles(g.pts) : TRUE
         IN  [raised |-> FALSE,
              geom   |-> Geom(IF g.fix = "multipolygon"
                                  THEN "MultiPolygon" ELSE "Polygon",
                              tri, "na")]

-----------------------------------------------------------------------------
(* DXF entities (ezdxf), as far as the converter reads them *)

\* An entity: dxftype(), dxf.layer ("" when unset), dxf.color (the colour
\* index, kept as its text), and the numeric fields of its type: a is a
\* POINT's location, a LINE's start, a CIRCLE's or ARC's center; b a LINE's
\* end; verts and closed a polyline's vertices and closed flag; r a radius;
\* sa and ea an ARC's start and end angle in degrees.  broken: reading the
\* entity's fields raises.
Entity(type, layer, a, b, verts, closed, r, sa, ea, fix, broken) ==
    [type |-> type, layer |-> layer, color |-> "256", a |-> a, b |-> b,
     verts |-> verts, closed |-> closed, r |-> r, sa |-> sa, ea |-> ea,
     fix |-> fix, broken |-> broken]

supported_entities == {"LINE", "POLYLINE", "LWPOLYLINE", "CIRCLE", "ARC", "POINT"}

Origin == <<0, 0>>

PointEntity(layer, a) ==
    Entity("POINT", layer, a, Origin, <<>>, FALSE, 0, 0, 0, "na", FALSE)
LineEntity(layer, a, b) ==
    Entity("LINE", layer, a, b, <<>>, FALSE, 0, 0, 0, "na", FALSE)
PolylineEntity(type, layer, verts, closed, fix) ==
    Entity(type, layer, Origin, Origin, verts, closed, 0, 0, 0, fix, FALSE)
CircleEntity(layer, a, r) ==
    Entity("CIRCLE", layer, a, Origin, <<>>, FALSE, r, 0, 0, "na", FALSE)
ArcEntity(layer, a, r, sa, ea) ==
    Entity("ARC", layer, a, Origin, <<>>, FALSE, r, sa, ea, "na", FALSE)
OtherEntity(layer) ==
    Entity("TEXT", layer, Origin, Origin, <<>>, FALSE, 0, 0, 0, "na", FALSE)

-----------------------------------------------------------------------------
(* DXFProcessor._entity_to_geometry *)

finite_point(p) == isfinite(p[1]) /\ isfinite(p[2])

\* a variant that stops at the first vertex with a non-finite coordinate
valid_points_until_bad(verts) ==
    LET bad == {k \in DOMAIN verts : ~finite_point(verts[k])}
    IN  IF bad = {} THEN verts
        ELSE SubSeq(verts, 1, (CHOOSE k \in bad : \A m \in bad : k <= m) - 1)

\* the vertices with finite coordinates, in entity order
valid_points(verts) == SelectSeq(verts, finite_point)

\* the closed-polyline branch: points has more than 2 points
closed_polyline_to_geometry(pts, fix) ==
    LET points == IF pts[1] # pts[Len(pts)] THEN Append(pts, pts[1]) ELSE pts
        unique_points == Range(SubSeq(points, 1, Len(points) - 1))
        poly == Polygon(points, fix)
    IN  IF Cardinality(unique_points) < 3 THEN LineString(points, "na")
        ELSE IF is_valid(poly)
            THEN (IF is_empty(poly) THEN LineString(points, "na") ELSE poly)
        ELSE LET fixed == buffer0(poly)
             IN  IF fixed.raised THEN LineString(points, "na")
                 ELSE IF is_empty(fixed.geom) THEN LineString(points, "na")
                 ELSE fixed.geom

\* a variant that ignores the closed flag
polyline_to_geometry_open(e) ==
    LET points == valid_points(e.verts)
    IN  IF Len(points) < 2 THEN None ELSE LineString(points, "na")

polyline_to_geometry(e) ==
    LET points == valid_points(e.verts)
    IN  IF Len(points) < 2 THEN None
        ELSE IF e.closed /\ Len(points) > 2
            THEN closed_polyline_to_geometry(points, e.fix)
        ELSE LineString(points, "na")

\* a variant without the test of the radius' sign
circle_to_geometry_any_radius(e) ==
    IF ~(isfinite(e.a[1]) /\ isfinite(e.a[2]) /\ isfinite(e.r)) THEN None
    ELSE Polygon([i \in 1..33 |->
                     <<e.a[1] + Mul(e.r, cos(2 * (i - 1))),
                       e.a[2] + Mul(e.r, sin(2 * (i - 1)))>>], "na")

circle_to_geometry(e) ==
    IF ~(isfinite(e.a[1]) /\ isfinite(e.a[2]) /\ isfinite(e.r)) THEN None
    ELSE IF e.r <= 0 THEN None
    ELSE Polygon([i \in 1..33 |->
                     <<e.a[1] + Mul(e.r, cos(2 * (i - 1))),
                       e.a[2] + Mul(e.r, sin(2 * (i - 1)))>>], "na")

\* the angle start + i * (end - start) / 16 in sixty-fourths of a turn
arc_angle(sa, ea, i) == (16 * sa + i * (ea - sa)) \div 90

arc_to_geometry(e) ==
    IF ~(isfinite(e.a[1]) /\ isfinite(e.a[2]) /\ isfinite(e.r)) THEN None
    ELSE IF e.r <= 0 THEN None
    ELSE IF ~(isfinite(e.sa) /\ isfinite(e.ea)) THEN None
    ELSE LineString([i \in 1..17 |->
                        <<e.a[1] + Mul(e.r, cos(arc_angle(e.sa, e.ea, i - 1))),
                          e.a[2] + Mul(e.r, sin(arc_angle(e.sa, e.ea, i - 1)))>>],
                    "na")

\* None when the entity yields no geometry
entity_to_geometry(e) ==
    IF e.broken THEN None
    ELSE IF e.type = "POINT"
        THEN (IF finite_point(e.a) THEN Point(e.a[1], e.a[2]) ELSE None)
    ELSE IF e.type = "LINE"
        THEN (IF finite_point(e.a) /\ finite_point(e.b)
                  THEN LineString(<<e.a, e.b>>, "na") ELSE None)
    ELSE IF e.type \in {"POLYLINE", "LWPOLYLINE"} THEN polyline_to_geometry(e)
    ELSE IF e.type = "CIRCLE" THEN circle_to_geometry(e)
    ELSE IF e.type = "ARC" THEN arc_to_geometry(e)
    ELSE None

-----------------------------------------------------------------------------
(* pyproj and shapely.ops.transform *)

\* A CRS identifier "AUTHORITY:CODE" is the pair <<authority, code>>.
EPSG(code) == <<"EPSG", code>>
WGS84 == EPSG(4326)
WebMercator == EPSG(3857)
NoCrs == <<"None", 0>>

\* the systems pyproj can resolve; Transformer.from_crs raises on another
resolvable(crs) == crs \in {WGS84, WebMercator}

\* Transformer.from_crs(source, target).transform on one coordinate pair.
\* Between two different systems the coordinates change (here: the axes are
\* stretched and shifted, and Web Mercator -> WGS84 undoes WGS84 -> Web
\* Mercator up to rounding); from a system to itself they do not.
transform_point(source, target, p) ==
    IF source = target THEN p
    ELSE IF source = WGS84 THEN <<3 * p[1] + 7, 2 * p[2] + 11>>
    ELSE <<RoundDiv(p[1] - 7, 3), RoundDiv(p[2] - 11, 2)>>

\* the coordinates of a geometry mapped, the type kept
with_coords(g, coords) == [g EXCEPT !.pts = coords]

\* shapely.ops.transform(func, geom), coords being func applied to each
\* coordinate of geom: an empty geometry is returned as it is, otherwise the
\* same type is built from the mapped coordinates.  Result: [raised, geom].
transform(coords, g) ==
    IF is_empty(g) THEN [raised |-> FALSE, geom |-> g]
    ELSE IF g.tx = "raise" THEN [raised |-> TRUE, geom |-> None]
    ELSE IF g.tx = "empty" THEN [raised |-> FALSE, geom |-> [g EXCEPT !.pts = <<>>]]
    ELSE [raised |-> FALSE, geom |-> with_coords(g, coords)]

-----------------------------------------------------------------------------
(* DXFProcessor._extract_geometries_by_layer: one pass of its loop *)

\* geometries_by_layer is a dict in insertion order: the sequence of
\* [layer, features], a layer at the place of its first entity.
layer_index(gbl, layer_name) ==
    IF \E k \in DOMAIN gbl : gbl[k].layer = layer_name
        THEN CHOOSE k \in DOMAIN gbl : gbl[k].layer = layer_name
        ELSE 0

with_layer(gbl, layer_name) ==
    IF layer_index(gbl, layer_name) = 0
        THEN Append(gbl, [layer |-> layer_name, features |-> <<>>])
        ELSE gbl

\* a variant that puts the new feature first
append_feature_front(gbl, layer_name, feature) ==
    LET g == with_layer(gbl, layer_name)
        k == layer_index(g, layer_name)
    IN  [g EXCEPT ![k].features = <<feature>> \o @]

append_feature(gbl, layer_name, feature) ==
    LET g == with_layer(gbl, layer_name)
        k == layer_index(g, layer_name)
    IN  [g EXCEPT ![k].features = Append(@, feature)]

Feature(geometry, layer_name, e) ==
    [geometry   |-> geometry,
     properties |-> [layer |-> layer_name, entity_type |-> e.type,
                     color |-> e.color]]

layer_of(e) == IF e.layer = "" THEN "0" ELSE e.layer

\* A member that a dict does not have, and JSON null.
Absent == "<absent>"
Null == "<null>"

\* the value of "coordinate_info" in a dict that has no such member
NoInfo == [type |-> "absent"]

NoResult == [status |-> "none", kind |-> "none", features |-> <<>>,
             crs |-> <<>>, coordinate_info |-> NoInfo, error |-> <<>>]

\* raise Exception(f"Failed to convert DXF: ...") out of convert_dxf_to_gis
Raised(error) == [status |-> "raised", kind |-> "none", features |-> <<>>,
                  crs |-> <<>>, coordinate_info |-> NoInfo,
                  error |-> <<"Failed to convert DXF">> \o error]

\* a variant that names the raw layer attribute
entity_error_raw(e) ==
    <<"Error processing", e.type, e.layer, "Failed to convert", e.type, e.layer>>

\* The strict-mode error: raised at line 277, wrapped at line 281.
entity_error(e) ==
    <<"Error processing", e.type, layer_of(e), "Failed to convert", e.type,
      layer_of(e)>>

\* a variant that counts an entity of an unsupported type as seen
SkipUnsupportedCounted ==
    /\ UNCHANGED <<scaleVars, projVars, detVars, jobVars>>
    /\ cpc = "extract" /\ idx <= Len(doc)
    /\ doc[idx].type \notin supported_entities
    /\ idx' = idx + 1
    /\ total_count' = total_count + 1
    /\ UNCHANGED <<doc, skip_invalid, source_crs, target_crs, output_format,
                   cpc, geometries_by_layer, skipped_count, cres>>

\* an entity of an unsupported type: continue
SkipUnsupported ==
    /\ UNCHANGED <<scaleVars, projVars, detVars, jobVars>>
    /\ cpc = "extract" /\ idx <= Len(doc)
    /\ doc[idx].type \notin supported_entities
    /\ idx' = idx + 1
    /\ UNCHANGED <<doc, skip_invalid, source_crs, target_crs, output_format,
                   cpc, geometries_by_layer, total_count, skipped_count, cres>>

\* a supported entity that yields a geometry
CollectEntity ==
    /\ UNCHANGED <<scaleVars, projVars, detVars, jobVars>>
    /\ cpc = "extract" /\ idx <= Len(doc)
    /\ doc[idx].type \in supported_entities
    /\ Truthy(entity_to_geometry(doc[idx]))
    /\ total_count' = total_count + 1
    /\ geometries_by_layer' =
           append_feature(geometries_by_layer, layer_of(doc[idx]),
                          Feature(entity_to_geometry(doc[idx]),
                                  layer_of(doc[idx]), doc[idx]))
    /\ idx' = idx + 1
    /\ UNCHANGED <<doc, skip_invalid, source_crs, target_crs, output_format,
                   cpc, skipped_count, cres>>

\* a supported entity that yields none, skip_invalid=True: count and go on
SkipInvalidEntity ==
    /\ UNCHANGED <<scaleVars, projVars, detVars, jobVars>>
    /\ cpc = "extract" /\ idx <= Len(doc)
    /\ doc[idx].type \in supported_entities
    /\ ~Truthy(entity_to_geometry(doc[idx]))
    /\ skip_invalid
    /\ total_count' = total_count + 1
    /\ geometries_by_layer' =
           with_layer(geometries_by_layer, layer_of(doc[idx]))
    /\ skipped_count' = skipped_count + 1
    /\ idx' = idx + 1
    /\ UNCHANGED <<doc, skip_invalid, source_crs, target_crs, output_format,
                   cpc, cres>>

\* a supported entity that yields none, skip_invalid=False: the ValueError
\* of line 277 is caught at line 278 (which counts the entity again) and
\* re-raised; convert_dxf_to_gis wraps it and raises.
AbortOnInvalidEntity ==
    /\ UNCHANGED <<scaleVars, projVars, detVars, jobVars>>
    /\ cpc = "extract" /\ idx <= Len(doc)
    /\ doc[idx].type \in supported_entities
    /\ ~Truthy(entity_to_geometry(doc[idx]))
    /\ ~skip_invalid
    /\ total_count' = total_count + 1
    /\ geometries_by_layer' =
           with_layer(geometries_by_layer, layer_of(doc[idx]))
    /\ skipped_count' = skipped_count + 2
    /\ cres' = Raised(entity_error(doc[idx]))
    /\ cpc' = "done"
    /\ UNCHANGED <<doc, skip_invalid, source_crs, target_crs, output_format,
                   idx>>

-----------------------------------------------------------------------------
(* detect_coordinate_system_type *)

\* s[:n]
Take(s, n) == SubSeq(s, 1, Min2(n, Len(s)))

\* min and max of a non-empty list of numbers
MinOf(s) == CHOOSE v \in Range(s) : \A w \in Range(s) : v <= w
MaxOf(s) == CHOOSE v \in Range(s) : \A w \in Range(s) : v >= w

\* The comparisons of a coordinate with a whole number of drawing units.  A
\* coordinate is the integer m standing for the real m / unit; the thresholds
\* are compared through floor(m / unit) and ceil(m / unit), which decide the
\* same and keep every number within 32 bits.
Floor(m, unit) == m \div unit
Ceil(m, unit) == -((-m) \div unit)

\* a variant with the ends of the range left out
within_open(m, lo, hi, unit) == lo < Floor(m, unit) /\ Ceil(m, unit) < hi

\* lo <= x <= hi
within(m, lo, hi, unit) == lo <= Floor(m, unit) /\ Ceil(m, unit) <= hi

\* x > t
above(m, t, unit) == Ceil(m, unit) > t

\* a variant that tests y_magnitude / x_magnitude >= 2.0
ratio_at_least_2(y_magnitude, x_magnitude) ==
    x_magnitude > 0 /\ y_magnitude - x_magnitude >= x_magnitude

\* (y_magnitude / x_magnitude if x_magnitude > 0 else 0) > 2.0
ratio_above_2(y_magnitude, x_magnitude) ==
    x_magnitude > 0 /\ y_magnitude - x_magnitude > x_magnitude

\* what one feature adds to sample_coords
feature_sample(feature) ==
    LET geom == feature.geometry
    IN  IF ~Truthy(geom) THEN <<>>
        ELSE IF geom.kind = "Point" THEN <<geom.pts[1]>>
        ELSE IF geom.kind \in {"Polygon", "LineString", "MultiPolygon"}
            THEN Take(geom.pts, 5)
        ELSE <<>>

RECURSIVE features_sample(_)
features_sample(features) ==
    IF features = <<>> THEN <<>>
    ELSE feature_sample(Head(features)) \o features_sample(Tail(features))

\* the loop over the layers, the first 10 features of each
RECURSIVE collect_sample_coords(_)
collect_sample_coords(gbl) ==
    IF gbl = <<>> THEN <<>>
    ELSE features_sample(Take(Head(gbl).features, 10))
             \o collect_sample_coords(Tail(gbl))

GeographicSystem == "WGS84 or similar geographic CRS"
StatePlaneFeet == "US State Plane (US Survey Feet)"
WebMercatorOrUTM == "Web Mercator (EPSG:3857) or UTM"
LikelyStatePlaneOrWebMercator ==
    "Projected system (likely State Plane feet or Web Mercator)"
UnknownProjected == "Unknown projected system"

\* the branch of the projected case: its label and the start of its suggestion
projected_system(x_magnitude, y_magnitude, unit) ==
    IF /\ within(x_magnitude, 200000, 20000000, unit)
       /\ within(y_magnitude, 200000, 20000000, unit)
        THEN IF \/ ratio_above_2(y_magnitude, x_magnitude)
                \/ (/\ above(x_magnitude, 1000000, unit)
                    /\ above(y_magnitude, 1000000, unit))
                 THEN <<StatePlaneFeet,
                        "These coordinates appear to be in US State Plane (feet)">>
                 ELSE <<WebMercatorOrUTM,
                        "These coordinates appear to be in a projected system (meters)">>
    ELSE IF /\ within(x_magnitude, 100000, 30000000, unit)
            /\ within(y_magnitude, 100000, 30000000, unit)
        THEN <<LikelyStatePlaneOrWebMercator,
               "These coordinates are in a projected system">>
    ELSE <<UnknownProjected,
           "These coordinates are projected but the system is unclear">>

\* detect_coordinate_system_type(geometries_by_layer), on coordinates that
\* count `unit` to the drawing unit
detect_coordinate_system_type(gbl, unit) ==
    LET sample_coords == collect_sample_coords(gbl)
        x_vals == [i \in DOMAIN sample_coords |-> sample_coords[i][1]]
        y_vals == [i \in DOMAIN sample_coords |-> sample_coords[i][2]]
        x_min == MinOf(x_vals)
        x_max == MaxOf(x_vals)
        y_min == MinOf(y_vals)
        y_max == MaxOf(y_vals)
        x_magnitude == Max2(Abs(x_min), Abs(x_max))
        y_magnitude == Max2(Abs(y_min), Abs(y_max))
        system == projected_system(x_magnitude, y_magnitude, unit)
    IN  IF sample_coords = <<>>
            THEN [type |-> "unknown", likely_system |-> "unknown",
                  sample_coords |-> <<>>, x_range |-> <<0, 0>>,
                  y_range |-> <<0, 0>>,
                  suggestion |-> "No coordinates found to analyze"]
        ELSE IF /\ \A i \in DOMAIN x_vals : within(x_vals[i], -180, 180, unit)
                /\ \A i \in DOMAIN y_vals : within(y_vals[i], -90, 90, unit)
            THEN [type |-> "geographic", likely_system |-> GeographicSystem,
                  sample_coords |-> Take(sample_coords, 5),
                  x_range |-> <<x_min, x_max>>, y_range |-> <<y_min, y_max>>,
                  suggestion |->
                      "Coordinates appear to be in Latitude/Longitude format"]
        ELSE [type |-> "projected", likely_system |-> system[1],
              sample_coords |-> Take(sample_coords, 5),
              x_range |-> <<x_min, x_max>>, y_range |-> <<y_min, y_max>>,
              suggestion |-> system[2]]

NoDetection == [type |-> "none"]

\* one call of detect_coordinate_system_type
DetectCoordinateSystemType ==
    /\ dpc = "call"
    /\ dres' = detect_coordinate_system_type(dlayers, dunit)
    /\ dpc' = "done"
    /\ UNCHANGED <<dlayers, dunit>>
    /\ UNCHANGED <<convVars, scaleVars, projVars, jobVars>>

-----------------------------------------------------------------------------
(* DXFProcessor._create_geodataframe *)

\* One feature of the collection: the row it becomes, or <<>> when skipped.
geodataframe_row(feature) ==
    LET geom == feature.geometry
        fixed == buffer0(geom)
        row(g) == <<[geometry |-> g, properties |-> feature.properties]>>
        checked(g) ==
            IF g.kind = "Polygon" /\ Len(g.pts) < 4 THEN <<>> ELSE row(g)
    IN  IF geom = None \/ is_empty(geom) THEN <<>>
        ELSE IF is_valid(geom) THEN checked(geom)
        ELSE IF fixed.raised THEN <<>>
        ELSE IF ~is_valid(fixed.geom) \/ is_empty(fixed.geom) THEN <<>>
        ELSE checked(fixed.geom)

\* all_features: the rows of every layer, layer after layer
create_geodataframe(gbl, crs) ==
    [rows |-> Flatten([k \in DOMAIN gbl |->
                 Flatten([j \in DOMAIN gbl[k].features |->
                     geodataframe_row(gbl[k].features[j])])]),
     crs  |-> crs]

\* GeoDataFrame.to_crs(target): every coordinate through pyproj
to_crs(gdf, target) ==
    [rows |-> [j \in DOMAIN gdf.rows |->
                  [gdf.rows[j] EXCEPT !.geometry =
                      with_coords(@, [k \in DOMAIN @.pts |->
                                         transform_point(gdf.crs, target, @.pts[k])])]],
     crs  |-> target]

\* "urn:ogc:def:crs:EPSG::<code>", the code being what follows the colon
urn_crs(crs) == <<"urn:ogc:def:crs:EPSG::", crs[2]>>

-----------------------------------------------------------------------------
(* DXFProcessor.convert_dxf_to_gis, after the extraction *)

\* a variant that ignores the caller's source CRS
actual_source_crs_ignored == target_crs

actual_source_crs == IF source_crs # NoCrs THEN source_crs ELSE target_crs

converted_gdf ==
    LET gdf == create_geodataframe(geometries_by_layer, actual_source_crs)
    IN  IF actual_source_crs # target_crs THEN to_crs(gdf, target_crs) ELSE gdf

\* self._analyze_coordinates(geometries_by_layer)
analyze_coordinates(gbl) == detect_coordinate_system_type(gbl, Unit)

\* What convert_dxf_to_gis returns: json.loads(gdf.to_json()) with the crs
\* and coordinate_info members set, a FeatureCollection; for another
\* output_format the GeoDataFrame itself.
conversion_result(gdf, gbl, target, format) ==
    IF format = "geojson"
        THEN [status |-> "ok", kind |-> "geojson", features |-> gdf.rows,
              crs |-> urn_crs(target),
              coordinate_info |-> analyze_coordinates(gbl), error |-> <<>>]
        ELSE [status |-> "ok", kind |-> "gdf", features |-> gdf.rows,
              crs |-> gdf.crs, coordinate_info |-> NoInfo, error |-> <<>>]

ConvertFinish ==
    /\ UNCHANGED <<scaleVars, projVars, detVars, jobVars>>
    /\ cpc = "extract" /\ idx > Len(doc)
    /\ cres' = conversion_result(converted_gdf, geometries_by_layer,
                                 target_crs, output_format)
    /\ cpc' = "done"
    /\ UNCHANGED <<doc, skip_invalid, source_crs, target_crs, output_format,
                   idx, geometries_by_layer, total_count, skipped_count>>

-----------------------------------------------------------------------------
(* DXFProcessor.apply_scale_to_geojson *)

\* A scale factor is a fixed-point number (1000 stands for 1.0), NaN, Inf, or
\* NotANumber: a value that is no int and no float.
NotANumber == 900000003

\* The argument geojson_data: py is what Python object it is ("dict",
\* "emptydict", "None", "list"); of a dict, type is its "type" member,
\* features_key says whether "features" is a list, something else or absent,
\* features the list, crs the "crs" member (<<>> when absent).
GeoJSON(py, type, features_key, features, crs) ==
    [py |-> py, type |-> type, features_key |-> features_key,
     features |-> features, crs |-> crs]

FeatureCollection(features, crs) ==
    GeoJSON("dict", "FeatureCollection", "list", features, crs)

\* a variant without the range check
scale_validation_clamped(data, factor, output) ==
    IF data.py \in {"None", "emptydict"} THEN "GeoJSON data is required"
    ELSE IF data.py # "dict" THEN "GeoJSON data must be a dictionary"
    ELSE IF data.type # "FeatureCollection"
        THEN "GeoJSON must be a FeatureCollection"
    ELSE IF data.features_key = "absent"
        THEN "GeoJSON must contain features array"
    ELSE IF data.features_key # "list" THEN "Features must be an array"
    ELSE IF Len(data.features) = 0
        THEN "GeoJSON contains no features to scale"
    ELSE IF factor = NotANumber THEN "Scale factor must be a number"
    ELSE IF ~isfinite(factor) THEN "Scale factor must be finite"
    ELSE IF factor <= 0 THEN "Scale factor must be greater than 0"
    ELSE IF output # "geojson" THEN "Invalid output format"
    ELSE "ok"

\* The checks of lines 601-634, in their order: the message of the first that
\* fails, "ok" when none does.
scale_validation(data, factor, output) ==
    IF data.py \in {"None", "emptydict"} THEN "GeoJSON data is required"
    ELSE IF data.py # "dict" THEN "GeoJSON data must be a dictionary"
    ELSE IF data.type # "FeatureCollection"
        THEN "GeoJSON must be a FeatureCollection"
    ELSE IF data.features_key = "absent"
        THEN "GeoJSON must contain features array"
    ELSE IF data.features_key # "list" THEN "Features must be an array"
    ELSE IF Len(data.features) = 0
        THEN "GeoJSON contains no features to scale"
    ELSE IF factor = NotANumber THEN "Scale factor must be a number"
    ELSE IF ~isfinite(factor) THEN "Scale factor must be finite"
    ELSE IF factor <= 0 THEN "Scale factor must be greater than 0"
    ELSE IF ~(900 <= factor /\ factor <= 1100)
        THEN "Scale factor is outside valid range (0.9-1.1)"
    ELSE IF output # "geojson" THEN "Invalid output format"
    ELSE "ok"

\* a variant that scales about the first vertex
scale_geometry_coordinates_about_first(geometry, factor) ==
    LET o == geometry.pts[1]
        scaled == transform([k \in DOMAIN geometry.pts |->
                                <<o[1] + Mul(geometry.pts[k][1] - o[1], factor),
                                  o[2] + Mul(geometry.pts[k][2] - o[2], factor)>>],
                            geometry)
    IN  IF scaled.raised THEN geometry ELSE scaled.geom

\* DXFProcessor._scale_geometry_coordinates: every coordinate times the
\* factor; the geometry itself when the transform raises.
scale_geometry_coordinates(geometry, factor) ==
    LET scaled == transform([k \in DOMAIN geometry.pts |->
                                <<Mul(geometry.pts[k][1], factor),
                                  Mul(geometry.pts[k][2], factor)>>],
                            geometry)
    IN  IF scaled.raised THEN geometry ELSE scaled.geom

\* One pass of the scaling loop (lines 679-711): what is appended to
\* scaled_geometries and what is added to failed_count.
scaled_geometry(g, factor) ==
    LET fixed  == buffer0(g)
        geom   == IF is_valid(g) THEN g ELSE fixed.geom   \* geom rebound
        scaled == scale_geometry_coordinates(geom, factor)
    IN  IF g = None \/ is_empty(g) THEN [geom |-> g, failed |-> 0]
        ELSE IF ~is_valid(g) /\ fixed.raised THEN [geom |-> g, failed |-> 1]
        ELSE IF scaled = None \/ is_empty(scaled)
            THEN [geom |-> geom, failed |-> 1]
        ELSE [geom |-> scaled, failed |-> 0]

\* a variant that keeps the property columns but not their values
frame_properties_dropped(features, props) ==
    [k \in DOMAIN props |-> IF props[k] # Absent THEN Null ELSE Absent]

\* GeoDataFrame.from_features, then to_json: a column for every property
\* some feature has; a feature without it gets null.
frame_properties(features, props) ==
    [k \in DOMAIN props |->
        IF props[k] # Absent THEN props[k]
        ELSE IF \E j \in DOMAIN features : features[j].properties[k] # Absent
            THEN Null
        ELSE Absent]

RECURSIVE SumFailed(_)
SumFailed(entries) ==
    IF entries = <<>> THEN 0
    ELSE Head(entries).failed + SumFailed(Tail(entries))

ScaleResult(status, error, features, crs, failed_count, geometries_read) ==
    [status |-> status, error |-> error, features |-> features, crs |-> crs,
     failed_count |-> failed_count, geometries_read |-> geometries_read]

NoScaleResult == ScaleResult("none", "", <<>>, <<>>, 0, 0)

\* The whole call.  status "ok": the returned FeatureCollection (features,
\* crs); status "ValueError": the error raised.  failed_count is the count
\* the function logs, geometries_read how many geometries it has read.
apply_scale_to_geojson(data, factor, output) ==
    LET check == scale_validation(data, factor, output)
        rows  == SelectSeq(data.features, LAMBDA f : f.geometry # None)
        done  == [j \in DOMAIN rows |-> scaled_geometry(rows[j].geometry, factor)]
    IN  IF check # "ok" THEN ScaleResult("ValueError", check, <<>>, <<>>, 0, 0)
        ELSE IF rows = <<>>
            THEN ScaleResult("ValueError", "All geometries are null or invalid",
                             <<>>, <<>>, 0, Len(data.features))
        ELSE ScaleResult("ok", "",
                 [j \in DOMAIN rows |->
                     [geometry   |-> done[j].geom,
                      properties |-> frame_properties(data.features,
                                                      rows[j].properties)]],
                 data.crs, SumFailed(done), Len(data.features))

\* 1/f as a caller computes it
inverse_factor(factor) == RoundDiv(Unit * Unit, factor)

\* the first call
ApplyScale ==
    /\ UNCHANGED <<convVars, projVars, detVars, jobVars>>
    /\ spc = "call"
    /\ sres' = apply_scale_to_geojson(geojson_data, scale_factor, scale_format)
    /\ spc' = "scaled"
    /\ UNCHANGED <<geojson_data, scale_factor, scale_format, sback>>

\* a second call, on what the first returned, with the inverse factor
ApplyInverseScale ==
    /\ UNCHANGED <<convVars, projVars, detVars, jobVars>>
    /\ spc = "scaled"
    /\ sres.status = "ok"
    /\ sback' = apply_scale_to_geojson(FeatureCollection(sres.features, sres.crs),
                                       inverse_factor(scale_factor),
                                       scale_format)
    /\ spc' = "back"
    /\ UNCHANGED <<geojson_data, scale_factor, scale_format, sres>>

-----------------------------------------------------------------------------
(* transform_coordinates *)

ProjResult(status, list, built) ==
    [status |-> status, geometries |-> list, transformers |-> built]

NoProjResult == ProjResult("none", <<>>, 0)

\* a variant without the early return for equal CRSs
transform_coordinates_always(geoms, source, target) ==
    LET out == [j \in DOMAIN geoms |->
                   IF Truthy(geoms[j].geometry)
                       THEN transform([k \in DOMAIN geoms[j].geometry.pts |->
                                          transform_point(source, target,
                                              geoms[j].geometry.pts[k])],
                                      geoms[j].geometry)
                       ELSE [raised |-> FALSE, geom |-> geoms[j].geometry]]
    IN  IF ~(resolvable(source) /\ resolvable(target))
            THEN ProjResult("raised", <<>>, 0)
        ELSE IF \E j \in DOMAIN out : out[j].raised
            THEN ProjResult("raised", <<>>, 1)
        ELSE ProjResult("ok",
                 [j \in DOMAIN geoms |->
                     [geoms[j] EXCEPT !.geometry = out[j].geom]], 1)

\* The whole call: the list returned (status "ok") or the exception raised
\* (status "raised"); transformers counts the transformers built.
\* A geometry dict is [geometry, properties]; a falsy geometry is passed on.
transform_coordinates(geoms, source, target) ==
    LET out == [j \in DOMAIN geoms |->
                   IF Truthy(geoms[j].geometry)
                       THEN transform([k \in DOMAIN geoms[j].geometry.pts |->
                                          transform_point(source, target,
                                              geoms[j].geometry.pts[k])],
                                      geoms[j].geometry)
                       ELSE [raised |-> FALSE, geom |-> geoms[j].geometry]]
    IN  IF source = target THEN ProjResult("ok", geoms, 0)
        ELSE IF ~(resolvable(source) /\ resolvable(target))
            THEN ProjResult("raised", <<>>, 0)
        ELSE IF \E j \in DOMAIN out : out[j].raised
            THEN ProjResult("raised", <<>>, 1)
        ELSE ProjResult("ok",
                 [j \in DOMAIN geoms |->
                     [geoms[j] EXCEPT !.geometry = out[j].geom]], 1)

TransformCoordinates ==
    /\ UNCHANGED <<convVars, scaleVars, detVars, jobVars>>
    /\ tpc = "call"
    /\ tres' = transform_coordinates(geometries, tsource, ttarget)
    /\ tpc' = "done"
    /\ UNCHANGED <<geometries, tsource, ttarget>>

-----------------------------------------------------------------------------
(* The inputs *)

\* Bounds of the model
MaxVerts    == 4    \* vertices of a polyline
MaxEntities == 2    \* entities of a drawing (but for the sample drawing)
MaxFeatures == 2    \* features of a collection to scale or to reproject

\* coordinates
A0 == <<0, 0>>
A1 == <<1000, 1000>>
A2 == <<2000, 2000>>
A3 == <<2000, 0>>
BadVertex == <<NaN, 0>>
Coordinates == {0, 1000, NaN, Inf}

PolylinePoints == {A0, A1, A2, A3, BadVertex}

\* the repairs to consider for a polyline: every outcome when its points
\* form a closed ring that is not valid, none otherwise
Fixes(verts, closed) ==
    LET points == valid_points(verts)
    IN  IF closed /\ Len(points) > 2 /\ ~is_valid(Polygon(points, "na"))
            THEN FixOutcomes ELSE {"na"}

Polylines ==
    {PolylineEntity(type, "", verts, closed, fix) :
        <<type, verts, closed, fix>> \in
            {t \in {"LWPOLYLINE"} \X SeqsUpTo(PolylinePoints, MaxVerts)
                   \X BOOLEAN \X (FixOutcomes \cup {"na"}) :
                t[4] \in Fixes(t[2], t[3])}}

Points == {PointEntity("", <<x, y>>) : x \in Coordinates, y \in Coordinates}

LineEnds == {A0, A1, <<NaN, 0>>, <<0, Inf>>}
Lines == {LineEntity("", a, b) : a \in LineEnds, b \in LineEnds}

Centers == {A0, <<1000, 2000>>, <<NaN, 0>>, <<0, Inf>>}
Radii == {-1000, 0, 400, 1000, NaN, Inf}
Circles == {CircleEntity("", a, r) : a \in Centers, r \in Radii}

Angles == {0, 90, 360, NaN}
Arcs == {ArcEntity("", a, r, sa, ea) :
            a \in {A0, <<NaN, 0>>}, r \in {0, 1000, Inf},
            sa \in Angles, ea \in Angles}

\* entities whose fields cannot be read: _entity_to_geometry's handler
Broken == {[PolylineEntity("LWPOLYLINE", "", <<A0, A3, A2>>, TRUE, "na")
               EXCEPT !.broken = TRUE],
           [PointEntity("A", A1) EXCEPT !.broken = TRUE]}

\* the ring that shapely's manual repairs with buffer(0): two triangles that
\* meet in a vertex, which the repair returns as a MultiPolygon
Bowtie == << <<0, 0>>, <<0, 2000>>, <<1000, 1000>>, <<2000, 2000>>,
             <<2000, 0>>, <<1000, 1000>> >>

AllEntities ==
    Points \cup Lines \cup Polylines \cup Circles \cup Arcs \cup Broken
           \cup {OtherEntity(""),
                 PolylineEntity("LWPOLYLINE", "", Bowtie, TRUE, "multipolygon")}

\* The sample drawing of test_conversion.create_sample_dxf (a drawing unit is
\* 100 units of the model).
SampleDoc ==
    << LineEntity("", <<0, 0>>, <<10000, 10000>>),
       PolylineEntity("LWPOLYLINE", "",
                      << <<0, 0>>, <<10000, 0>>, <<10000, 5000>>, <<0, 5000>>,
                         <<0, 0>> >>, TRUE, "na"),
       CircleEntity("", <<5000, 2500>>, 1500),
       PointEntity("", <<7500, 7500>>),
       ArcEntity("", <<2500, 7500>>, 2000, 0, 90) >>

\* a drawing whose layers alternate
LayeredDoc ==
    << PointEntity("A", A1), LineEntity("", A0, A1), CircleEntity("A", A0, 1000) >>

\* the entities of the drawings of several entities, on two layers
SomeEntities ==
    { PointEntity("A", A1),
      PointEntity("", <<NaN, 0>>),
      LineEntity("", A0, A1),
      LineEntity("A", A1, A1),
      PolylineEntity("LWPOLYLINE", "", <<A0, A3, A2>>, TRUE, "na"),
      PolylineEntity("POLYLINE", "A", <<A0, A2, A3, A1>>, TRUE, "multipolygon"),
      CircleEntity("A", A0, 1000),
      ArcEntity("", A0, 1000, 0, 360),
      OtherEntity("A") }

\* the calls of convert_dxf_to_gis: skip_invalid, source_crs, target_crs,
\* output_format
Calls ==
    (BOOLEAN \X {<<NoCrs, WGS84>>, <<WGS84, WGS84>>, <<WebMercator, WGS84>>,
                 <<NoCrs, WebMercator>>} \X {"geojson"})
    \cup {<<TRUE, <<NoCrs, WGS84>>, "shapefile">>}

DefaultCalls == BOOLEAN \X {<<NoCrs, WGS84>>} \X {"geojson"}

ConvInputs ==
    ({<<e>> : e \in AllEntities} \X DefaultCalls)
    \cup ({SampleDoc, LayeredDoc} \X DefaultCalls)
    \cup (SeqsUpTo(SomeEntities, MaxEntities) \X Calls)

ConvIdle ==
    /\ doc = <<>> /\ skip_invalid = TRUE /\ source_crs = NoCrs
    /\ target_crs = WGS84 /\ output_format = "geojson" /\ cpc = "idle"
    /\ idx = 1 /\ geometries_by_layer = <<>> /\ total_count = 0
    /\ skipped_count = 0 /\ cres = NoResult

ConvInit ==
    /\ \E in \in ConvInputs :
          /\ doc = in[1]
          /\ skip_invalid = in[2][1]
          /\ source_crs = in[2][2][1]
          /\ target_crs = in[2][2][2]
          /\ output_format = in[2][3]
    /\ cpc = "extract" /\ idx = 1 /\ geometries_by_layer = <<>>
    /\ total_count = 0 /\ skipped_count = 0 /\ cres = NoResult

\* geometries of the collections to scale or to reproject
Tri == Polygon(<<A0, A3, A2>>, "na")
BadRing == <<A0, A2, A3, A1, A0>>
SomeGeometries ==
    { Point(1000, 2000),
      LineString(<<A0, <<2000, 1000>>>>, "na"),
      Tri,
      LineString(<<A1, A1>>, "na"),
      EmptyPolygon,
      None,
      [Point(1000, 2000) EXCEPT !.tx = "raise"],
      [Tri EXCEPT !.tx = "empty"] }
    \cup {Geom("Polygon", BadRing, fix) : fix \in FixOutcomes}

Props(layer, name) == [layer |-> layer, name |-> name]

SomeFeatures ==
    {[geometry |-> g, properties |-> Props("0", Absent)] : g \in SomeGeometries}
    \cup {[geometry |-> Point(1000, 2000), properties |-> Props(Absent, "n")]}

Factors == {NotANumber, NaN, Inf, -1000, 0, 500, 899, 900, 909, 1000, 1100,
            1101, 1500}

CrsMembers == {<<>>, urn_crs(WGS84)}

OneFeature == <<[geometry |-> Point(1000, 2000), properties |-> Props("0", Absent)]>>

ScaleInputs ==
    ({FeatureCollection(fs, crs) :
         fs \in SeqsUpTo(SomeFeatures, MaxFeatures), crs \in CrsMembers}
         \X Factors \X {"geojson"})
    \cup ({GeoJSON("None", "", "absent", <<>>, <<>>),
           GeoJSON("emptydict", "", "absent", <<>>, <<>>),
           GeoJSON("list", "", "absent", <<>>, <<>>),
           GeoJSON("dict", "Feature", "list", OneFeature, <<>>),
           GeoJSON("dict", "FeatureCollection", "absent", <<>>, <<>>),
           GeoJSON("dict", "FeatureCollection", "notlist", <<>>, <<>>)}
              \X {1000, 1500} \X {"geojson"})
    \cup ({FeatureCollection(OneFeature, <<>>)} \X {1000, 1500} \X {"shapefile"})

ScaleIdle ==
    /\ geojson_data = FeatureCollection(<<>>, <<>>) /\ scale_factor = 1000
    /\ scale_format = "geojson" /\ spc = "idle" /\ sres = NoScaleResult
    /\ sback = NoScaleResult

ScaleInit ==
    /\ \E in \in ScaleInputs :
          /\ geojson_data = in[1]
          /\ scale_factor = in[2]
          /\ scale_format = in[3]
    /\ spc = "call" /\ sres = NoScaleResult /\ sback = NoScaleResult

ProjCrs == {WGS84, WebMercator, EPSG(0)}

ProjIdle ==
    /\ geometries = <<>> /\ tsource = WGS84 /\ ttarget = WGS84
    /\ tpc = "idle" /\ tres = NoProjResult

ProjInit ==
    /\ geometries \in SeqsUpTo(SomeFeatures, MaxFeatures)
    /\ tsource \in ProjCrs
    /\ ttarget \in ProjCrs
    /\ tpc = "call" /\ tres = NoProjResult

\* layers to classify.  Coordinates in whole drawing units (dunit = 1) reach
\* the thresholds of the projected branch; coordinates in thousandths
\* (dunit = Unit) fall between whole units at the ends of the geographic range.
MaxDetFeatures == 2

DetPoints ==
    { <<0, 0>>, <<180, 90>>, <<-180, -90>>, <<181, 0>>, <<0, 91>>,
      <<-181, 0>>, <<0, -91>>, <<500, 500>>,
      <<99999, 100000>>, <<100000, 100000>>, <<150000, 150000>>,
      <<199999, 200000>>, <<200000, 200000>>, <<200000, 400000>>,
      <<200000, 400001>>, <<300000, 250000>>, <<1000000, 1000000>>,
      <<1000001, 1000000>>, <<1000001, 1000001>>, <<5000000, 5000000>>,
      <<-5000000, 5000000>>, <<20000000, 20000000>>, <<20000001, 20000000>>,
      <<25000000, 25000000>>, <<30000000, 30000000>>, <<30000001, 100000>> }

FinePoints ==
    { <<180000, 90000>>, <<180001, 0>>, <<0, 90001>>, <<-180001, 0>>,
      <<179999, -89999>>, <<0, -90001>> }

PointFeature(p) ==
    [geometry |-> Point(p[1], p[2]),
     properties |-> [layer |-> "0", entity_type |-> "POINT", color |-> "256"]]

LineFeature(ps) ==
    [geometry |-> LineString(ps, "na"),
     properties |-> [layer |-> "0", entity_type |-> "LINE", color |-> "256"]]

Layer(name, features) == [layer |-> name, features |-> features]

\* eleven points of one layer, six vertices of one line or ring: the last is
\* past what is sampled
Eleven == [i \in 1..11 |-> PointFeature(IF i = 11 THEN <<300000, 250000>>
                                                  ELSE <<i, i>>)]
SixVertices == <<A0, A1, A2, A3, <<2000, 2000>>, <<300000, 250000>>>>

\* two layers of ten lines of five vertices: 100 coordinates, the last one
\* the only one outside the geographic range
FiveVertices == <<A0, A1, A2, A3, <<2000, 2000>>>>
TenLines == [i \in 1..10 |-> LineFeature(FiveVertices)]
LastOfHundred ==
    [TenLines EXCEPT ![10] =
        LineFeature([FiveVertices EXCEPT ![5] = <<300000, 250000>>])]

CappedLayers ==
    { <<Layer("A", TenLines), Layer("B", LastOfHundred)>>,
      <<Layer("A", TenLines), Layer("B", TenLines)>>,
      <<Layer("0", Eleven)>>,
      <<Layer("0", SubSeq(Eleven, 2, 11))>>,
      <<Layer("0", <<LineFeature(SixVertices)>>)>>,
      <<Layer("0", <<LineFeature(Tail(SixVertices))>>)>>,
      <<Layer("0", <<[geometry |-> Polygon(SixVertices, "na"),
                     properties |-> [layer |-> "0",
                                     entity_type |-> "LWPOLYLINE",
                                     color |-> "256"]]>>)>>,
      <<Layer("0", <<>>)>>,
      <<Layer("0", <<[PointFeature(A0) EXCEPT !.geometry = EmptyPolygon]>>)>>,
      <<Layer("0", <<[PointFeature(A0) EXCEPT !.geometry = EmptyPolygon],
                     PointFeature(<<5000000, 5000000>>)>>)>> }

DetInputs ==
    ({<<Layer("0", [i \in DOMAIN ps |-> PointFeature(ps[i])])>> :
         ps \in SeqsUpTo(DetPoints, MaxDetFeatures)} \X {1})
    \cup ({<<Layer("A", <<PointFeature(p)>>), Layer("B", <<PointFeature(q)>>)>> :
              p \in {<<0, 0>>, <<200000, 400001>>}, q \in DetPoints} \X {1})
    \cup ({<<Layer("0", <<LineFeature(<<p, q>>)>>)>> :
              p \in {<<0, 0>>, <<200000, 400001>>}, q \in DetPoints} \X {1})
    \cup (CappedLayers \X {1})
    \cup ({<<Layer("0", [i \in DOMAIN ps |-> PointFeature(ps[i])])>> :
              ps \in SeqsUpTo(FinePoints, MaxDetFeatures)} \X {Unit})

DetIdle ==
    /\ dlayers = <<>> /\ dunit = Unit /\ dpc = "idle" /\ dres = NoDetection

DetInit ==
    /\ \E in \in DetInputs : dlayers = in[1] /\ dunit = in[2]
    /\ dpc = "call" /\ dres = NoDetection

JobIdle ==
    /\ jobs = <<>> /\ uploads = <<>> /\ outputs = <<>> /\ tasks = <<>>
    /\ status_log = <<>>

-----------------------------------------------------------------------------
(* main.py: the job store, the requests and the background tasks *)

\* A job id is the position of the job in `jobs` (uuid4: a fresh id for every
\* job).  uploads[id] is the file uploads/<id>_<filename>, outputs[id] the
\* file outputs/<id>_converted.* or outputs/<id>_scaled.*; a file_path or an
\* output_path is the id of the job that wrote the file.

\* None where a job id or a path is expected (ids count from 1)
NoJob == 0
NoPath == 0

\* JobStatus
PENDING == "pending"
PROCESSING == "processing"
COMPLETED == "completed"
FAILED == "failed"

\* no such file
NoFile == [kind |-> "nofile"]

\* a file opened for writing and left empty
EmptyFile == [kind |-> "empty"]

\* an uploaded file that ezdxf.readfile rejects
CorruptFile == [kind |-> "corrupt"]

\* an uploaded drawing
DxfFile(entities) == [kind |-> "dxf", entities |-> entities]

\* json.dump(result, f) of a result dict: the members written
JsonFile(features, crs, coordinate_info) ==
    [kind |-> "json", type |-> "FeatureCollection", features |-> features,
     crs |-> crs, coordinate_info |-> coordinate_info]

\* json.load(f) of such a file: the dict given to apply_scale_to_geojson
load_json(file) ==
    [py |-> "dict", type |-> file.type, features_key |-> "list",
     features |-> file.features, crs |-> file.crs,
     coordinate_info |-> file.coordinate_info]

\* the record a request puts in `jobs`; "output_path" is no member of it yet
Job(filename, target, format, file_path, message, factor, parent) ==
    [status |-> PENDING, filename |-> filename, target_crs |-> target,
     output_format |-> format, file_path |-> file_path, progress |-> 0,
     message |-> message, output_path |-> NoPath, scale_factor |-> factor,
     parent_job_id |-> parent]

\* background_tasks.add_task(fn, job_id): the task and where it stands
Task(fn) == [fn |-> fn, pc |-> "scheduled"]

\* _extract_geometries_by_layer(doc, skip_invalid=True), the whole loop
RECURSIVE extract_geometries_by_layer(_, _)
extract_geometries_by_layer(entities, gbl) ==
    IF entities = <<>> THEN gbl
    ELSE LET e == Head(entities)
             geom == entity_to_geometry(e)
         IN  IF e.type \notin supported_entities
                 THEN extract_geometries_by_layer(Tail(entities), gbl)
             ELSE IF Truthy(geom)
                 THEN extract_geometries_by_layer(Tail(entities),
                          append_feature(gbl, layer_of(e),
                                         Feature(geom, layer_of(e), e)))
             ELSE extract_geometries_by_layer(Tail(entities),
                                              with_layer(gbl, layer_of(e)))

\* convert_dxf_to_gis(file_path, target_crs, output_format) as
\* process_dxf_file calls it: no source_crs, so the source CRS is the target
\* CRS and to_crs is not called; skip_invalid=True.
convert_dxf_to_gis(file, target, format) ==
    IF file.kind # "dxf" THEN Raised(<<"ezdxf.readfile">>)
    ELSE LET gbl == extract_geometries_by_layer(file.entities, <<>>)
         IN  conversion_result(create_geodataframe(gbl, target), gbl,
                               target, format)

\* the requests of the job store
MaxJobs == 3

JobCrs == {WGS84, WebMercator}
OutputFormats == {"geojson", "shapefile"}
RequestFactors == {900}

\* a drawing of two layers, a drawing without entities, a file that is no DXF
UploadedFiles ==
    { DxfFile(<<PointEntity("A", A1), LineEntity("", A0, A1)>>),
      DxfFile(<<>>),
      CorruptFile }

\* a request creates job `job`, scheduling task fn; the upload is the file
\* saved with it (NoFile for a derived job, which saves none)
create_job(job, upload, fn) ==
    /\ jobs' = Append(jobs, job)
    /\ uploads' = Append(uploads, upload)
    /\ outputs' = Append(outputs, NoFile)
    /\ tasks' = Append(tasks, Task(fn))
    /\ status_log' = Append(status_log, <<job.status>>)

\* POST /api/upload (the first request: the later ones work on its file)
UploadFile ==
    /\ jobs = <<>>
    /\ \E file \in UploadedFiles, target \in JobCrs, format \in OutputFormats :
          create_job(Job("drawing.dxf", target, format, Len(jobs) + 1,
                         "File uploaded successfully", NotANumber, NoJob),
                     file, "process_dxf_file")
    /\ UNCHANGED <<convVars, scaleVars, projVars, detVars>>

\* POST /api/reproject/{job_id}
ReprojectFile ==
    /\ Len(jobs) < MaxJobs
    /\ \E job_id \in DOMAIN jobs, target \in JobCrs,
          requested \in OutputFormats \cup {Null} :
          LET original_job == jobs[job_id]
              format == IF requested = Null THEN original_job.output_format
                        ELSE requested
          IN  /\ uploads[original_job.file_path] # NoFile
              /\ create_job(Job(original_job.filename, target, format,
                                original_job.file_path,
                                "Reprojecting to new coordinate system...",
                                NotANumber, job_id),
                            NoFile, "process_dxf_file")
    /\ UNCHANGED <<convVars, scaleVars, projVars, detVars>>

\* POST /api/apply-scale-factor/{job_id}; the request body has passed
\* ScaleFactorRequest (0.9 <= scale_factor <= 1.1)
ApplyScaleFactor ==
    /\ Len(jobs) < MaxJobs
    /\ \E job_id \in DOMAIN jobs, factor \in RequestFactors,
          requested \in OutputFormats \cup {Null} :
          LET original_job == jobs[job_id]
              format == IF requested = Null THEN original_job.output_format
                        ELSE requested
          IN  /\ original_job.status = COMPLETED
              /\ original_job.output_path # NoPath
              /\ outputs[original_job.output_path] # NoFile
              /\ format = "geojson"
              /\ create_job(Job(original_job.filename,
                                original_job.target_crs, format,
                                original_job.file_path,
                                <<"Applying scale factor", factor>>, factor,
                                job_id),
                            NoFile, "process_scaled_conversion")
    /\ UNCHANGED <<convVars, scaleVars, projVars, detVars>>

\* a variant that assigns the other members and leaves the status
keep_status(job_id, job, status) ==
    /\ jobs' = [jobs EXCEPT ![job_id] = job]
    /\ UNCHANGED status_log

\* job["status"] = status, with the other members given in `job`
set_status(job_id, job, status) ==
    /\ jobs' = [jobs EXCEPT ![job_id] = [job EXCEPT !.status = status]]
    /\ status_log' = [status_log EXCEPT ![job_id] = Append(@, status)]

\* a variant that does not announce the processing
ProcessDxfStartSilent ==
    /\ \E job_id \in DOMAIN jobs :
          /\ tasks[job_id] = Task("process_dxf_file")
          /\ jobs' = [jobs EXCEPT ![job_id].progress = 10]
          /\ tasks' = [tasks EXCEPT ![job_id].pc = "sleeping"]
    /\ UNCHANGED <<uploads, outputs, status_log>>
    /\ UNCHANGED <<convVars, scaleVars, projVars, detVars>>

\* process_dxf_file up to `await asyncio.sleep(1)`
ProcessDxfStart ==
    /\ \E job_id \in DOMAIN jobs :
          /\ tasks[job_id] = Task("process_dxf_file")
          /\ set_status(job_id,
                        [jobs[job_id] EXCEPT
                            !.progress = 10,
                            !.message = "Starting DXF processing..."],
                        PROCESSING)
          /\ tasks' = [tasks EXCEPT ![job_id].pc = "sleeping"]
    /\ UNCHANGED <<uploads, outputs>>
    /\ UNCHANGED <<convVars, scaleVars, projVars, detVars>>

\* a variant that names the output file after the uploaded file
output_file_of_upload(job_id, job) == job.file_path

\* OUTPUT_DIR / f"{job_id}_converted.{...}" and f"{job_id}_scaled.{...}"
output_file(job_id, job) == job_id

\* a variant that completes a job without recording where its output is
completed_without_path(job, output_path, message) ==
    [job EXCEPT !.progress = 100, !.message = message]

\* job["output_path"] = str(output_path); job["progress"] = 100;
\* job["message"] = ...: the record of a job at its completion (the status
\* is assigned with it)
completed(job, output_path, message) ==
    [job EXCEPT !.output_path = output_path,
                !.progress = 100,
                !.message = message]

\* process_dxf_file from the sleep to its end.  A failure of the conversion
\* leaves progress at 50; a result that json.dump cannot write (the
\* GeoDataFrame of another output format) leaves progress at 80 and the
\* output file empty.
ProcessDxfFinish ==
    /\ \E job_id \in DOMAIN jobs :
          LET job == jobs[job_id]
              result == convert_dxf_to_gis(uploads[job.file_path],
                                           job.target_crs, job.output_format)
              output_path == output_file(job_id, job)
          IN  /\ tasks[job_id] = [fn |-> "process_dxf_file", pc |-> "sleeping"]
              /\ tasks' = [tasks EXCEPT ![job_id].pc = "done"]
              /\ IF result.status = "raised"
                     THEN /\ set_status(job_id,
                                 [job EXCEPT
                                     !.progress = 50,
                                     !.message = <<"Processing failed">>
                                                     \o result.error],
                                 FAILED)
                          /\ UNCHANGED outputs
                 ELSE IF result.kind # "geojson"
                     THEN /\ set_status(job_id,
                                 [job EXCEPT
                                     !.progress = 80,
                                     !.message = <<"Processing failed",
                                                   "not JSON serializable">>],
                                 FAILED)
                          /\ outputs' = [outputs EXCEPT ![output_path] =
                                            EmptyFile]
                 ELSE /\ set_status(job_id,
                             completed(job, output_path,
                                 "Conversion completed successfully!"),
                             COMPLETED)
                      /\ outputs' = [outputs EXCEPT ![output_path] =
                             JsonFile(result.features, result.crs,
                                      result.coordinate_info)]
    /\ UNCHANGED uploads
    /\ UNCHANGED <<convVars, scaleVars, projVars, detVars>>

\* a variant that leaves the crs member out
scaled_file_without_crs(scaled_result) ==
    JsonFile(scaled_result.features, <<>>, NoInfo)

\* json.dump(scaled_result, f): the dict that apply_scale_to_geojson returns
\* has the members type and features of gdf.to_json() and the crs member
\* copied from its argument, no other.
scaled_file(scaled_result) ==
    JsonFile(scaled_result.features, scaled_result.crs, NoInfo)

\* process_scaled_conversion.  It has no await: no request and no other task
\* runs between its assignments, so it is one step; the status it assigns on
\* the way (PROCESSING, line 453) is kept in status_log.
ProcessScaledConversion ==
    /\ \E job_id \in DOMAIN jobs :
          LET job == jobs[job_id]
              original_job == jobs[job.parent_job_id]
              original_output == outputs[original_job.output_path]
              loaded == load_json(original_output)
              scaled_result == apply_scale_to_geojson(loaded,
                                   job.scale_factor, job.output_format)
              failed(error) ==
                  /\ jobs' = [jobs EXCEPT ![job_id] =
                         [job EXCEPT
                             !.status = FAILED,
                             !.progress = 0,
                             !.message =
                                 <<"Scale factor application failed">>
                                     \o error]]
                  /\ status_log' = [status_log EXCEPT ![job_id] =
                                       @ \o <<PROCESSING, FAILED>>]
                  /\ UNCHANGED outputs
          IN  /\ tasks[job_id] = Task("process_scaled_conversion")
              /\ tasks' = [tasks EXCEPT ![job_id].pc = "done"]
              /\ IF original_job.output_path = NoPath
                     THEN failed(<<"Original job has no output path">>)
                 ELSE IF original_output = NoFile
                     THEN failed(<<"Original output file not found">>)
                 ELSE IF original_output.kind # "json"
                     THEN failed(<<"Invalid JSON in original file">>)
                 ELSE IF scaled_result.status # "ok"
                     THEN failed(<<"Scale factor transformation failed",
                                   scaled_result.error>>)
                 ELSE /\ jobs' = [jobs EXCEPT ![job_id] =
                             [completed(job, output_file(job_id, job),
                                  <<"Scale factor applied successfully",
                                    job.scale_factor>>)
                                 EXCEPT !.status = COMPLETED]]
                      /\ status_log' = [status_log EXCEPT ![job_id] =
                                           @ \o <<PROCESSING, COMPLETED>>]
                      /\ outputs' = [outputs EXCEPT
                             ![output_file(job_id, job)] =
                                 scaled_file(scaled_result)]
    /\ UNCHANGED uploads
    /\ UNCHANGED <<convVars, scaleVars, projVars, detVars>>

\* A response: the HTTP status and, with 200, the content returned.
Response(status_code, content) ==
    [status_code |-> status_code, content |-> content]

\* GET /api/preview/{job_id}: the GeoJSON saved, in WGS84 for the map
preview_result(job_id) ==
    IF job_id \notin DOMAIN jobs THEN Response(404, "Job not found")
    ELSE LET job == jobs[job_id]
             file == outputs[job.output_path]
         IN  IF job.status # COMPLETED
                 THEN Response(400, "Job not completed")
             ELSE IF job.output_path = NoPath \/ file = NoFile
                 THEN Response(404, "Output file not found")
             ELSE IF job.output_format # "geojson"
                 THEN Response(400, "Preview only available for GeoJSON")
             ELSE IF file.kind # "json"
                 THEN Response(500, "Failed to load preview")
             ELSE IF job.target_crs # WGS84
                 THEN Response(200,
                          JsonFile(to_crs([rows |-> file.features,
                                           crs |-> job.target_crs],
                                          WGS84).rows,
                                   urn_crs(WGS84), NoInfo))
             ELSE Response(200, file)

\* GET /api/download/{job_id}: the output file
download_result(job_id) ==
    IF job_id \notin DOMAIN jobs THEN Response(404, "Job not found")
    ELSE LET job == jobs[job_id]
         IN  IF job.status # COMPLETED
                 THEN Response(400, "Job not completed")
             ELSE IF job.output_path = NoPath
                         \/ outputs[job.output_path] = NoFile
                 THEN Response(404, "Output file not found")
             ELSE Response(200, outputs[job.output_path])

\* An output file is removed from the outputs directory (by the operator of
\* the service: the program removes none).
DeleteOutput ==
    /\ \E path \in DOMAIN outputs :
          /\ outputs[path] # NoFile
          /\ outputs' = [outputs EXCEPT ![path] = NoFile]
    /\ UNCHANGED <<jobs, uploads, tasks, status_log>>
    /\ UNCHANGED <<convVars, scaleVars, projVars, detVars>>

-----------------------------------------------------------------------------
(* The specifications *)

ConvNext ==
    \/ SkipUnsupported
    \/ CollectEntity
    \/ SkipInvalidEntity
    \/ AbortOnInvalidEntity
    \/ ConvertFinish

\* convert_dxf_to_gis on one drawing
InitConvert == ConvInit /\ ScaleIdle /\ ProjIdle /\ DetIdle /\ JobIdle
SpecConvert == InitConvert /\ [][ConvNext]_vars

ScaleNext == ApplyScale \/ ApplyInverseScale

\* apply_scale_to_geojson on one collection, then on its result
InitScale == ScaleInit /\ ConvIdle /\ ProjIdle /\ DetIdle /\ JobIdle
SpecScale == InitScale /\ [][ScaleNext]_vars

ProjNext == TransformCoordinates

\* transform_coordinates on one list
InitProj == ProjInit /\ ConvIdle /\ ScaleIdle /\ DetIdle /\ JobIdle
SpecProj == InitProj /\ [][ProjNext]_vars

DetNext == DetectCoordinateSystemType

\* detect_coordinate_system_type on one layer map
InitDetect == DetInit /\ ConvIdle /\ ScaleIdle /\ ProjIdle /\ JobIdle
SpecDetect == InitDetect /\ [][DetNext]_vars

JobNext ==
    \/ UploadFile
    \/ ReprojectFile
    \/ ApplyScaleFactor
    \/ ProcessDxfStart
    \/ ProcessDxfFinish
    \/ ProcessScaledConversion

\* the service: requests and background tasks in any order
InitJobs == JobIdle /\ ConvIdle /\ ScaleIdle /\ ProjIdle /\ DetIdle
SpecJobs == InitJobs /\ [][JobNext]_vars

\* The job store with its scheduler: the event loop runs every task that
\* was scheduled (background_tasks.add_task) and resumes it after its await,
\* and an output file may disappear from the outputs directory meanwhile.
\* The store is kept to fewer jobs than in SpecJobs.
MaxFairJobs == 2

FairReprojectFile == Len(jobs) < MaxFairJobs /\ ReprojectFile

FairApplyScaleFactor == Len(jobs) < MaxFairJobs /\ ApplyScaleFactor

FairJobNext ==
    \/ UploadFile
    \/ FairReprojectFile
    \/ FairApplyScaleFactor
    \/ ProcessDxfStart
    \/ ProcessDxfFinish
    \/ ProcessScaledConversion
    \/ DeleteOutput

\* The event loop runs a task that is ready: it starts a scheduled task or
\* resumes one at its await.  Of the steps of FairJobNext these are the
\* steps of ProcessDxfStart, ProcessDxfFinish and ProcessScaledConversion.
RunTask ==
    \E job_id \in DOMAIN jobs, pc \in {"sleeping", "done"} :
        /\ tasks[job_id].pc # "done"
        /\ tasks' = [tasks EXCEPT ![job_id].pc = pc]

Scheduling == WF_tasks(RunTask)

SpecJobsFair == InitJobs /\ [][FairJobNext]_vars /\ Scheduling

-----------------------------------------------------------------------------
(* Claims about the conversion (SpecConvert) *)

all_finite(verts) == \A k \in DOMAIN verts : finite_point(verts[k])

\* An entity with finite, well-formed input: a shape that is not degenerate.
WellFormed(e) ==
    /\ e.type \in supported_entities
    /\ ~e.broken
    /\ e.type = "POINT" => finite_point(e.a)
    /\ e.type = "LINE" => finite_point(e.a) /\ finite_point(e.b) /\ e.a # e.b
    /\ e.type \in {"POLYLINE", "LWPOLYLINE"} =>
          /\ all_finite(e.verts)
          /\ Cardinality(Range(e.verts)) >= 2
          /\ e.closed => Len(e.verts) >= 3 /\ RingIsValid(Polygon(e.verts, "na").pts)
    /\ e.type = "CIRCLE" => finite_point(e.a) /\ isfinite(e.r) /\ e.r > 0
    /\ e.type = "ARC" =>
          /\ finite_point(e.a) /\ isfinite(e.r) /\ e.r > 0
          /\ isfinite(e.sa) /\ isfinite(e.ea) /\ e.sa # e.ea

\* the entity-type mapping
ExpectedKind(e) ==
    IF e.type = "POINT" THEN "Point"
    ELSE IF e.type \in {"LINE", "ARC"} THEN "LineString"
    ELSE IF e.type = "CIRCLE" THEN "Polygon"
    ELSE IF e.closed THEN "Polygon" ELSE "LineString"

GeometryKinds == {"Point", "LineString", "Polygon", "MultiPolygon"}

KindCount(features, kind) ==
    Cardinality({j \in DOMAIN features : features[j].geometry.kind = kind})

\* C1: a drawing of well-formed supported entities, converted with source CRS
\* = target CRS, gives one feature per entity, of the kind of the entity's
\* type (a full-sweep ARC a LineString); the sample drawing gives 5 features:
\* 2 LineString, 2 Polygon, 1 Point.
C1_OneFeaturePerEntity ==
    (/\ cpc = "done"
     /\ actual_source_crs = target_crs
     /\ output_format = "geojson"
     /\ \A i \in DOMAIN doc : WellFormed(doc[i]))
    => /\ cres.status = "ok"
       /\ Len(cres.features) = Len(doc)
       /\ \A kind \in GeometryKinds :
             KindCount(cres.features, kind) =
                 Cardinality({i \in DOMAIN doc : ExpectedKind(doc[i]) = kind})
       /\ \A j \in DOMAIN cres.features :
             \E i \in DOMAIN doc :
                 /\ doc[i].type = cres.features[j].properties.entity_type
                 /\ layer_of(doc[i]) = cres.features[j].properties.layer
                 /\ ExpectedKind(doc[i]) = cres.features[j].geometry.kind
       /\ doc = SampleDoc =>
             /\ Len(cres.features) = 5
             /\ KindCount(cres.features, "LineString") = 2
             /\ KindCount(cres.features, "Polygon") = 2
             /\ KindCount(cres.features, "Point") = 1

\* the sample drawing, converted
C1_Witness ==
    /\ cpc = "done" /\ doc = SampleDoc /\ cres.status = "ok"
    /\ Len(cres.features) = 5

\* a polyline marked closed with at least 3 distinct valid points
ClosedWith3Distinct(e) ==
    /\ e.type \in {"POLYLINE", "LWPOLYLINE"} /\ ~e.broken /\ e.closed
    /\ Cardinality(Range(valid_points(e.verts))) >= 3

\* the ring the closed branch works on
closed_points(e) == Polygon(valid_points(e.verts), "na").pts

\* all geometries collected so far
collected == Flatten([k \in DOMAIN geometries_by_layer |->
                 [j \in DOMAIN geometries_by_layer[k].features |->
                     geometries_by_layer[k].features[j].geometry]])

\* C2: the geometry built for a closed polyline with at least 3 distinct valid
\* points is a valid, non-empty Polygon or a LineString over the same points:
\* never none, never an invalid Polygon, whatever the repair returns.  (Stated
\* on the drawings of one entity, once the entity is processed.)
C2_ClosedPolylineGeometry ==
    (Len(doc) = 1 /\ idx > 1 /\ ClosedWith3Distinct(doc[1]))
    => /\ Len(collected) = 1
       /\ LET g == collected[1]
          IN  \/ g.kind = "Polygon" /\ is_valid(g) /\ ~is_empty(g)
              \/ g.kind = "LineString" /\ g.pts = closed_points(doc[1])

\* entity i is supported and yields no geometry
Fails(i) ==
    /\ doc[i].type \in supported_entities
    /\ ~Truthy(entity_to_geometry(doc[i]))

FailingEntities == {i \in DOMAIN doc : Fails(i)}

FirstFailing == CHOOSE i \in FailingEntities : \A j \in FailingEntities : i <= j

SupportedCount(n) ==
    Cardinality({i \in 1..n : doc[i].type \in supported_entities})

C6_NeverEmptySuccess ==
    (cpc = "done" /\ cres.status = "ok") => Len(cres.features) > 0

-----------------------------------------------------------------------------
(* Claims about the uniform scaling (SpecScale) *)

in_band(factor) == isfinite(factor) /\ 900 <= factor /\ factor <= 1100

\* a request the claim says is rejected: no feature, or a factor that is
\* not finite, not positive or outside [0.9, 1.1]
BadRequest(data, factor) ==
    \/ data.py = "dict" /\ data.features_key = "list" /\ data.features = <<>>
    \/ ~in_band(factor)

Rejected(result) ==
    /\ result.status = "ValueError"
    /\ result.features = <<>>
    /\ result.geometries_read = 0

\* C4: a request with an empty feature list, or with a factor that is not
\* finite, not positive or outside [0.9, 1.1], is rejected with a validation
\* error before any geometry is read: no output (no clamping), input unchanged.
C4_ValidationFirst ==
    [][/\ (spc = "call" /\ BadRequest(geojson_data, scale_factor))
           => Rejected(sres') /\ geojson_data' = geojson_data
       /\ (spc = "scaled" /\ ~in_band(inverse_factor(scale_factor)))
           => Rejected(sback') /\ sres' = sres]_vars

\* the factor 1.5 on a collection that has features, rejected
C4_Witness ==
    /\ spc = "scaled" /\ scale_factor = 1500 /\ scale_format = "geojson"
    /\ geojson_data.py = "dict" /\ Len(geojson_data.features) > 0
    /\ sres.status = "ValueError"

in_features == geojson_data.features

\* the input features that have a geometry, in their order
in_rows == SelectSeq(in_features, LAMBDA f : f.geometry # None)

scale_point(factor, p) == <<Mul(p[1], factor), Mul(p[2], factor)>>

\* scaling geometry g raises or yields an empty result
ScalingFails(g, factor) ==
    LET fixed == buffer0(g)
        geom  == IF is_valid(g) THEN g ELSE fixed.geom
        moved == transform([k \in DOMAIN geom.pts |-> scale_point(factor, geom.pts[k])],
                           geom)
    IN  \/ ~is_valid(g) /\ fixed.raised
        \/ moved.raised
        \/ is_empty(moved.geom)

FailedInputs ==
    {j \in DOMAIN in_features :
        /\ Truthy(in_features[j].geometry)
        /\ ScalingFails(in_features[j].geometry, scale_factor)}

\* C5: scaling never drops a feature: one output feature per input feature,
\* in order; a geometry whose scaling raises or yields an empty result is in
\* the output as it was in the input (unscaled, unrepaired) and counts for
\* exactly one failure.
C5_NeverDrops ==
    (spc # "call" /\ sres.status = "ok")
    => /\ Len(sres.features) = Len(in_features)
       /\ \A j \in FailedInputs :
             sres.features[j].geometry = in_features[j].geometry
       /\ sres.failed_count = Cardinality(FailedInputs)

\* C7: in both batch transforms a failure on one geometry never aborts the
\* batch: a result for the whole batch is returned, one entry per geometry.
C7_FaultIsolation ==
    /\ (tpc = "done" /\ resolvable(tsource) /\ resolvable(ttarget))
          => /\ tres.status = "ok"
             /\ Len(tres.geometries) = Len(geometries)
    /\ (/\ spc # "call"
        /\ scale_validation(geojson_data, scale_factor, scale_format) = "ok"
        /\ in_rows # <<>>)
          => /\ sres.status = "ok"
             /\ Len(sres.features) = Len(in_rows)

\* every property the input feature has is in the output with its value
PropertiesKept(in, out) ==
    \A k \in DOMAIN in.properties :
        in.properties[k] # Absent => out.properties[k] = in.properties[k]

\* geometry `out` is geometry g with every vertex multiplied by the factor
Multiplied(g, out, factor) ==
    /\ out.kind = g.kind
    /\ out.pts = [k \in DOMAIN g.pts |-> scale_point(factor, g.pts[k])]

\* C9 (as stated): for a valid factor every vertex of every non-empty
\* geometry is multiplied by the factor, kind, vertex count and order and the
\* properties kept; an empty geometry is passed through.
C9_EveryVertexScaled ==
    (spc # "call" /\ sres.status = "ok")
    => /\ Len(sres.features) = Len(in_rows)
       /\ \A j \in DOMAIN in_rows :
             /\ PropertiesKept(in_rows[j], sres.features[j])
             /\ IF is_empty(in_rows[j].geometry)
                    THEN sres.features[j].geometry = in_rows[j].geometry
                    ELSE Multiplied(in_rows[j].geometry,
                                    sres.features[j].geometry, scale_factor)

\* the geometry is scaled as it is: valid, and its transform succeeds
ScalesAsIs(g) == is_valid(g) /\ g.tx = "ok"

\* C9 (amended): for a valid factor every vertex of every non-empty geometry
\* that is valid and whose transform succeeds is multiplied by the factor,
\* kind, vertex count and order and the properties kept; an empty geometry is
\* passed through.
C9_ValidVerticesScaled ==
    (spc # "call" /\ sres.status = "ok")
    => /\ Len(sres.features) = Len(in_rows)
       /\ \A j \in DOMAIN in_rows :
             /\ PropertiesKept(in_rows[j], sres.features[j])
             /\ is_empty(in_rows[j].geometry)
                    => sres.features[j].geometry = in_rows[j].geometry
             /\ (~is_empty(in_rows[j].geometry) /\ ScalesAsIs(in_rows[j].geometry))
                    => Multiplied(in_rows[j].geometry,
                                  sres.features[j].geometry, scale_factor)

\* a triangle scaled by 1.1 next to a geometry that is not scaled as it is
C9_Witness ==
    /\ spc = "scaled" /\ sres.status = "ok" /\ scale_factor = 1100
    /\ Len(in_rows) = 2
    /\ in_rows[1].geometry = Tri
    /\ sres.features[1].geometry.pts[2] = <<2200, 0>>
    /\ ~ScalesAsIs(in_rows[2].geometry)

Close(a, b) == Abs(a - b) <= 2

\* geometry `back` is geometry g within tolerance
SameWithin(g, back) ==
    /\ back.kind = g.kind
    /\ Len(back.pts) = Len(g.pts)
    /\ \A k \in DOMAIN g.pts :
          Close(back.pts[k][1], g.pts[k][1]) /\ Close(back.pts[k][2], g.pts[k][2])

RoundTrip ==
    /\ spc = "back"
    /\ in_band(scale_factor) /\ in_band(inverse_factor(scale_factor))

\* C10 (as stated): scaling by f and then by 1/f, both in [0.9, 1.1], returns
\* the same features in the same order with coordinates within tolerance.
C10_RoundTrip ==
    RoundTrip
    => /\ sback.status = "ok"
       /\ Len(sback.features) = Len(in_rows)
       /\ \A j \in DOMAIN in_rows :
             /\ PropertiesKept(in_rows[j], sback.features[j])
             /\ SameWithin(in_rows[j].geometry, sback.features[j].geometry)

\* C10 (amended): the same, for the collections whose features all have a
\* valid geometry.
C10_RoundTripOfValid ==
    (/\ RoundTrip
     /\ \A j \in DOMAIN in_features :
           in_features[j].geometry # None /\ is_valid(in_features[j].geometry))
    => /\ sback.status = "ok"
       /\ Len(sback.features) = Len(in_features)
       /\ \A j \in DOMAIN in_features :
             /\ PropertiesKept(in_features[j], sback.features[j])
             /\ SameWithin(in_features[j].geometry, sback.features[j].geometry)

\* a triangle and a line scaled by 1.1 and back by 0.909
C10_Witness ==
    /\ spc = "back" /\ scale_factor = 1100 /\ sback.status = "ok"
    /\ Len(in_features) = 2
    /\ in_features[1].geometry = Tri
    /\ in_features[2].geometry.kind = "LineString"
    /\ is_valid(in_features[2].geometry)
    /\ sres.features[1].geometry.pts[2] = <<2200, 0>>
    /\ sback.features[1].geometry.pts[2] = <<2000, 0>>

-----------------------------------------------------------------------------
(* Claims about reprojection (SpecReproject: both places that reproject) *)

InitReproject == InitConvert \/ InitProj

SpecReproject == InitReproject /\ [][ConvNext \/ ProjNext]_vars

\* C8: with source CRS = target CRS reprojection does nothing:
\* transform_coordinates returns its input as it is and builds no
\* transformer, and a conversion returns the geometries of its data frame
\* untransformed.
C8_SameCrsNoOp ==
    /\ (tpc = "done" /\ tsource = ttarget)
          => /\ tres.status = "ok"
             /\ tres.geometries = geometries
             /\ tres.transformers = 0
    /\ (cpc = "done" /\ cres.status = "ok" /\ actual_source_crs = target_crs)
          => cres.features =
                 create_geodataframe(geometries_by_layer, target_crs).rows

\* transform_coordinates called on two geometries with one CRS twice
C8_Witness ==
    /\ tpc = "done" /\ tsource = WebMercator /\ ttarget = WebMercator
    /\ Len(geometries) = 2 /\ tres.geometries = geometries

-----------------------------------------------------------------------------
(* Claims about the CRS of a conversion (SpecConvert) *)

\* the features' initial CRS as the statement has it
InitialCrs == IF source_crs # NoCrs THEN source_crs ELSE target_crs

\* the rows of the data frame, each coordinate taken from CRS `from` to `to`
Reprojected(rows, from, to) ==
    [j \in DOMAIN rows |->
        [geometry   |-> [rows[j].geometry EXCEPT !.pts =
                            [k \in DOMAIN rows[j].geometry.pts |->
                                transform_point(from, to, rows[j].geometry.pts[k])]],
         properties |-> rows[j].properties]]

\* C11: a conversion takes the caller's source_crs as the initial CRS of the
\* features when one is given and the target CRS otherwise, reprojects
\* exactly when the initial CRS differs from the target CRS, and always emits
\* the identifier urn:ogc:def:crs:EPSG::<code of the target CRS>.
C11_CrsChoice ==
    (cpc = "done" /\ cres.status = "ok" /\ output_format = "geojson")
    => LET rows == create_geodataframe(geometries_by_layer, InitialCrs).rows
       IN  /\ cres.crs = <<"urn:ogc:def:crs:EPSG::", target_crs[2]>>
           /\ InitialCrs = target_crs => cres.features = rows
           /\ InitialCrs # target_crs
                 => cres.features = Reprojected(rows, InitialCrs, target_crs)

\* a conversion from Web Mercator to WGS84 that moved a coordinate
C11_Witness ==
    /\ cpc = "done" /\ cres.status = "ok" /\ output_format = "geojson"
    /\ source_crs = WebMercator /\ target_crs = WGS84
    /\ Len(cres.features) > 0
    /\ cres.features # create_geodataframe(geometries_by_layer, source_crs).rows
    /\ cres.crs[2] = 4326

-----------------------------------------------------------------------------
(* Claims about the extraction and the geometries built (SpecConvert) *)

Indices(n) == [i \in 1..n |-> i]

\* the entities among the first n that are converted, in source order
ConvertedIn(n) ==
    SelectSeq(Indices(n), LAMBDA i : doc[i].type \in supported_entities
                                     /\ Truthy(entity_to_geometry(doc[i])))

\* the supported entities among the first n that open a layer
LayerOpeners(n) ==
    SelectSeq(Indices(n),
              LAMBDA i : /\ doc[i].type \in supported_entities
                         /\ \A j \in 1..(i - 1) :
                               doc[j].type \in supported_entities
                                   => layer_of(doc[j]) # layer_of(doc[i]))

\* what the statement says the grouping of the first n entities is
ExpectedGrouping(n) ==
    [k \in DOMAIN LayerOpeners(n) |->
        LET name == layer_of(doc[LayerOpeners(n)[k]])
            ids  == SelectSeq(ConvertedIn(n), LAMBDA i : layer_of(doc[i]) = name)
        IN  [layer    |-> name,
             features |-> [m \in DOMAIN ids |->
                 [geometry   |-> entity_to_geometry(doc[ids[m]]),
                  properties |-> [layer |-> name,
                                  entity_type |-> doc[ids[m]].type,
                                  color |-> doc[ids[m]].color]]]]]

\* C17: the grouping follows the encounter order and is a function of the
\* entity sequence: every feature is under the layer of its entity ("0" when
\* it has none), every layer lists its converted entities in source order,
\* layers are in the order they are first met, and so is the output.
C17_LayerGrouping ==
    (cpc \in {"extract", "done"} /\ cres.status # "raised")
    => /\ geometries_by_layer = ExpectedGrouping(idx - 1)
       /\ (cpc = "done" /\ InitialCrs = target_crs)
             => cres.features =
                    create_geodataframe(ExpectedGrouping(Len(doc)), target_crs).rows

\* the drawing with alternating layers, converted: layer A before layer 0
C17_Witness ==
    /\ cpc = "done" /\ doc = LayeredDoc
    /\ Len(geometries_by_layer) = 2
    /\ geometries_by_layer[1].layer = "A"
    /\ Len(geometries_by_layer[1].features) = 2
    /\ geometries_by_layer[1].features[1].geometry.kind = "Point"
    /\ geometries_by_layer[2].layer = "0"
    /\ Len(cres.features) = 3
    /\ cres.features[2].geometry.kind = "Polygon"

\* the parameters the statement names as invalid
InvalidParameters(e) ==
    \/ e.type = "POINT" /\ ~finite_point(e.a)
    \/ e.type = "LINE" /\ ~(finite_point(e.a) /\ finite_point(e.b))
    \/ e.type \in {"CIRCLE", "ARC"}
          /\ (~finite_point(e.a) \/ ~isfinite(e.r) \/ e.r <= 0)
    \/ e.type = "ARC" /\ ~(isfinite(e.sa) /\ isfinite(e.ea))

InvalidIn(n) == {i \in 1..n : InvalidParameters(doc[i])}

\* C18: an entity with invalid parameters yields no geometry and no feature,
\* is counted as skipped and, with skip_invalid=True, does not stop the
\* conversion.
C18_InvalidParametersDropped ==
    cpc \in {"extract", "done"}
    => /\ \A i \in InvalidIn(idx - 1) : i \notin Range(ConvertedIn(idx - 1))
       /\ Len(collected) <= SupportedCount(idx - 1) - Cardinality(InvalidIn(idx - 1))
       /\ skip_invalid =>
             /\ skipped_count >= Cardinality(InvalidIn(idx - 1))
             /\ cres.status # "raised"
             /\ cpc = "done" =>
                   /\ idx = Len(doc) + 1
                   /\ Len(cres.features)
                          <= SupportedCount(Len(doc)) - Cardinality(InvalidIn(Len(doc)))

\* a point with a NaN coordinate skipped, the entity after it converted
C18_Witness ==
    /\ cpc = "done" /\ skip_invalid /\ Len(doc) = 2
    /\ doc[1].type = "POINT" /\ InvalidParameters(doc[1])
    /\ skipped_count = 1
    /\ Len(cres.features) = 1

\* the squared distance of p from c, against r squared
AtDistance(p, c, r) ==
    LET d2 == (p[1] - c[1]) * (p[1] - c[1]) + (p[2] - c[2]) * (p[2] - c[2])
    IN  Abs(d2 - r * r) <= 4 * r

ProperCircle(e) ==
    e.type = "CIRCLE" /\ ~e.broken /\ finite_point(e.a) /\ isfinite(e.r) /\ e.r > 0

\* C19: a CIRCLE with finite center and radius r > 0 yields a Polygon whose
\* ring has exactly 33 points, the first equal to the last, every one at
\* distance r from the center.  (Stated on the drawings of one entity.)
C19_CircleRing ==
    (Len(doc) = 1 /\ idx > 1 /\ ProperCircle(doc[1]))
    => /\ Len(collected) = 1
       /\ LET g == collected[1]
          IN  /\ g.kind = "Polygon"
              /\ Len(g.pts) = 33
              /\ g.pts[1] = g.pts[33]
              /\ \A k \in DOMAIN g.pts : AtDistance(g.pts[k], doc[1].a, doc[1].r)

\* the invariant of the data model
GeometryInvariant(g) ==
    /\ g.kind \in {"Point", "LineString", "Polygon"}
    /\ g.kind = "LineString" => Cardinality(Range(g.pts)) >= 2
    /\ g.kind = "Polygon" => ~is_empty(g) /\ is_valid(g)

\* C20: every geometry the builder emits is a Point, a LineString with at
\* least 2 distinct points, or a non-empty simple Polygon, whatever the input.
C20_GeometryInvariant ==
    \A k \in DOMAIN collected : GeometryInvariant(collected[k])

-----------------------------------------------------------------------------
(* Claims about the classification (SpecDetect) *)

\* how many coordinates of a geometry are sampled
SampledOf(g) ==
    IF is_empty(g) THEN 0
    ELSE IF g.kind = "Point" THEN 1
    ELSE Min2(5, Len(g.pts))

\* the coordinates sampled: of the first 10 features of every layer, the
\* first 5 coordinates
Sampled ==
    UNION { UNION { {dlayers[l].features[i].geometry.pts[k] :
                        k \in 1..SampledOf(dlayers[l].features[i].geometry)} :
                    i \in 1..Min2(10, Len(dlayers[l].features)) } :
            l \in DOMAIN dlayers }

InGeographicRange(c) ==
    /\ -180 * dunit <= c[1] /\ c[1] <= 180 * dunit
    /\ -90 * dunit <= c[2] /\ c[2] <= 90 * dunit

\* C15: the classification is geographic exactly when some coordinate was
\* sampled and every sampled x is in [-180, 180] and y in [-90, 90]; it is
\* unknown, with both ranges (0, 0) and no sample points, exactly when no
\* coordinate was sampled; in every other case it is projected.
C15_Kind ==
    dpc = "done" =>
        /\ dres.type \in {"geographic", "unknown", "projected"}
        /\ dres.type = "geographic" <=>
               (Sampled # {} /\ \A c \in Sampled : InGeographicRange(c))
        /\ dres.type = "unknown" <=> Sampled = {}
        /\ dres.type = "unknown" =>
               /\ dres.x_range = <<0, 0>> /\ dres.y_range = <<0, 0>>
               /\ dres.sample_coords = <<>>

\* a classification of coordinates that reach the end of the geographic range
C15_Witness ==
    /\ dpc = "done" /\ dres.type = "geographic"
    /\ \E c \in Sampled : c[1] = 180 * dunit /\ c[2] = 90 * dunit

\* the axis magnitudes of a classification, in whole drawing units
XMagnitude == Max2(Abs(dres.x_range[1]), Abs(dres.x_range[2]))
YMagnitude == Max2(Abs(dres.y_range[1]), Abs(dres.y_range[2]))

BothIn(lo, hi) ==
    /\ lo <= XMagnitude /\ XMagnitude <= hi
    /\ lo <= YMagnitude /\ YMagnitude <= hi

\* The label of a projected classification, the label of the meter-scale
\* branch being `meters`.
LabelIs(meters) ==
    dres.likely_system =
        IF BothIn(200000, 20000000)
            THEN IF \/ YMagnitude > 2 * XMagnitude
                    \/ (XMagnitude > 1000000 /\ YMagnitude > 1000000)
                     THEN "US State Plane (US Survey Feet)"
                     ELSE meters
        ELSE IF BothIn(100000, 30000000)
            THEN LikelyStatePlaneOrWebMercator
        ELSE UnknownProjected

ProjectedInUnits == dpc = "done" /\ dunit = 1 /\ dres.type = "projected"

\* C16 as stated: a projected classification gets the label of the first
\* branch that applies, the meter-scale label being
\* "Web Mercator or UTM (meters)".
C16_LabelsAsStated == ProjectedInUnits => LabelIs("Web Mercator or UTM (meters)")

\* C16: a projected classification gets exactly one label: with both
\* magnitudes in [200000, 20000000], "US State Plane (US Survey Feet)" when
\* my/mx > 2.0 or both exceed 1000000 and "Web Mercator (EPSG:3857) or UTM"
\* otherwise; else with both in [100000, 30000000] the lower-confidence
\* label; else the unknown projected label.  Both magnitudes of 5,000,000
\* give "US State Plane (US Survey Feet)".
C16_Labels ==
    /\ ProjectedInUnits => LabelIs("Web Mercator (EPSG:3857) or UTM")
    /\ (ProjectedInUnits /\ XMagnitude = 5000000 /\ YMagnitude = 5000000)
           => dres.likely_system = "US State Plane (US Survey Feet)"

\* a classification of the meter-scale branch
C16_Witness ==
    /\ ProjectedInUnits
    /\ XMagnitude = 300000 /\ YMagnitude = 250000
    /\ dres.likely_system = WebMercatorOrUTM

-----------------------------------------------------------------------------
(* Claims about the jobs (SpecJobs) *)

\* job j was created by reproject_file / by apply_scale_factor
IsReprojection(j) ==
    jobs[j].parent_job_id # NoJob /\ tasks[j].fn = "process_dxf_file"
IsScaling(j) == tasks[j].fn = "process_scaled_conversion"

Completed(j) == jobs[j].status = COMPLETED

\* the output file of a completed job
OutputOf(j) == outputs[jobs[j].output_path]

\* C12: the output of a completed scale job has the crs member of its input
\* (the parent's output) and the parent's target CRS in its record, carries
\* no classification, and its coordinates are the input's multiplied by the
\* factor, not reprojected.
C12_ScaleKeepsCrs ==
    \A j \in DOMAIN jobs :
        (IsScaling(j) /\ Completed(j)) =>
            LET p == jobs[j].parent_job_id
                in == OutputOf(p)
                out == OutputOf(j)
            IN  /\ out.crs = in.crs
                /\ jobs[j].target_crs = jobs[p].target_crs
                /\ out.coordinate_info = NoInfo
                /\ Len(out.features) = Len(in.features)
                /\ \A k \in DOMAIN in.features :
                      Multiplied(in.features[k].geometry,
                                 out.features[k].geometry,
                                 jobs[j].scale_factor)

\* a scale job completed on an output in Web Mercator that carries a
\* classification
C12_Witness ==
    \E j \in DOMAIN jobs :
        /\ IsScaling(j) /\ Completed(j)
        /\ OutputOf(jobs[j].parent_job_id).crs = urn_crs(WebMercator)
        /\ OutputOf(jobs[j].parent_job_id).coordinate_info # NoInfo
        /\ OutputOf(j).features # <<>>

\* C13: the output of a completed reprojection job carries no
\* classification block.
C13_NoClassificationOnReprojection ==
    \A j \in DOMAIN jobs :
        (IsReprojection(j) /\ Completed(j)) =>
            OutputOf(j).coordinate_info = NoInfo

\* C14: the output of a completed reprojection job for target T, its parent
\* being completed, holds the features of the parent's output with the
\* coordinates transformed from the parent's CRS into T, and names T.
C14_ReprojectionOfParent ==
    \A j \in DOMAIN jobs :
        (/\ IsReprojection(j) /\ Completed(j)
         /\ Completed(jobs[j].parent_job_id)) =>
            LET p == jobs[j].parent_job_id
            IN  /\ OutputOf(j).features =
                       Reprojected(OutputOf(p).features, jobs[p].target_crs,
                                   jobs[j].target_crs)
                /\ OutputOf(j).crs = urn_crs(jobs[j].target_crs)

-----------------------------------------------------------------------------
(* Claims about the counts of the extraction (SpecConvert) *)

\* the supported entities among the first n that yield no geometry
FailedIn(n) == {i \in 1..n : Fails(i)}

\* C22: in default mode the seen count is the number of supported entities
\* read so far, the skipped count the number of those that gave no geometry,
\* and seen minus skipped the number of features held in all layers; an
\* entity of an unsupported type changes no count and aborts in no mode.
C22_ExactCounts ==
    /\ (skip_invalid /\ cpc \in {"extract", "done"}) =>
          /\ total_count = SupportedCount(idx - 1)
          /\ skipped_count = Cardinality(FailedIn(idx - 1))
          /\ total_count - skipped_count = Len(collected)
    /\ cres.status = "raised" => FailedIn(Len(doc)) # {}

\* a drawing of an unsupported entity and a supported one that is skipped
C22_Witness ==
    /\ cpc = "done" /\ skip_invalid /\ Len(doc) = 2
    /\ doc[1].type \notin supported_entities
    /\ total_count = 1 /\ skipped_count = 1

-----------------------------------------------------------------------------
(* Claims about polyline vertices (SpecConvert) *)

\* the vertices of e with finite coordinates, in entity order
FiniteVertices(e) ==
    SelectSeq(e.verts, LAMBDA p : p[1] \notin {NaN, Inf} /\ p[2] \notin {NaN, Inf})

\* a polyline whose vertices can be read
ReadablePolyline(e) == e.type \in {"POLYLINE", "LWPOLYLINE"} /\ ~e.broken

\* C23: of a polyline the vertices with a non-finite coordinate are left out
\* and the others keep their order; the entity is dropped exactly when fewer
\* than 2 valid vertices remain; a closed polyline with fewer than 3 distinct
\* valid points gives a LineString, not a Polygon.  (Stated on the drawings
\* of one entity, once the entity is processed.)
C23_PolylineVertices ==
    (Len(doc) = 1 /\ idx > 1 /\ ReadablePolyline(doc[1])) =>
        LET vp == FiniteVertices(doc[1])
            closed == IF vp # <<>> /\ vp[1] # vp[Len(vp)]
                          THEN Append(vp, vp[1]) ELSE vp
        IN  /\ collected = <<>> <=> Len(vp) < 2
            /\ Len(collected) <= 1
            /\ (Len(vp) >= 2 /\ (~doc[1].closed \/ Len(vp) = 2)) =>
                  /\ collected[1].kind = "LineString"
                  /\ collected[1].pts = vp
            /\ (Len(vp) > 2 /\ doc[1].closed
                    /\ Cardinality(Range(vp)) < 3) =>
                  /\ collected[1].kind = "LineString"
                  /\ collected[1].pts = closed

\* a closed polyline with a vertex left out and two distinct valid points
C23_Witness ==
    /\ Len(doc) = 1 /\ idx > 1 /\ ReadablePolyline(doc[1]) /\ doc[1].closed
    /\ Len(FiniteVertices(doc[1])) = 3
    /\ Len(doc[1].verts) = 4
    /\ Cardinality(Range(FiniteVertices(doc[1]))) = 2
    /\ collected # <<>> /\ collected[1].kind = "LineString"

-----------------------------------------------------------------------------
(* Claims about the features of the output (SpecConvert) *)

\* C30: in default mode the output of a conversion has as many features as
\* the extraction converted (seen minus skipped): every geometry collected is
\* emitted as one feature.
C30_NoneDropped ==
    (cpc = "done" /\ skip_invalid /\ cres.status = "ok")
        => Len(cres.features) = total_count - skipped_count

-----------------------------------------------------------------------------
(* Claims about the sample of the classification (SpecDetect) *)

\* the test `len(sample_coords) >= 50` of the loops over the parts of a
\* multi-part geometry
SampleCap == 50

\* the coordinates of the first 10 features of every layer, the first 5 of
\* each (the point of a Point), layer after layer
InSamplingOrder ==
    Flatten([l \in DOMAIN dlayers |->
        Flatten([i \in 1..Min2(10, Len(dlayers[l].features)) |->
            SubSeq(dlayers[l].features[i].geometry.pts, 1,
                   SampledOf(dlayers[l].features[i].geometry))])])

\* <<min, max>> of coordinate c of the points of a non-empty sequence
RangeOf(points, c) ==
    LET vals == {points[i][c] : i \in DOMAIN points}
    IN  <<CHOOSE v \in vals : \A w \in vals : v <= w,
          CHOOSE v \in vals : \A w \in vals : v >= w>>

\* the classification is computed from the sequence `sample`
ComputedFrom(sample) ==
    /\ dres.sample_coords = SubSeq(sample, 1, Min2(5, Len(sample)))
    /\ sample # <<>> =>
          /\ dres.x_range = RangeOf(sample, 1)
          /\ dres.y_range = RangeOf(sample, 2)

\* C21: the sample is the first 10 features of each layer, 5 coordinates of
\* each, cut off once about 50 points (at most 4 more) are gathered; the
\* sample points reported are its first 5 at most.
C21_SampleBounded ==
    dpc = "done" =>
        ComputedFrom(SubSeq(InSamplingOrder, 1,
                            Min2(SampleCap + 4, Len(InSamplingOrder))))

-----------------------------------------------------------------------------
(* The life of a job *)

Last(s) == s[Len(s)]

IsPrefix(s, t) == Len(s) <= Len(t) /\ SubSeq(t, 1, Len(s)) = s

Terminal == {COMPLETED, FAILED}

\* the moves of a status: Pending to Processing, Processing to an end
Moves(from, to) ==
    \/ from = PENDING /\ to = PROCESSING
    \/ from = PROCESSING /\ to \in Terminal

\* C24: a job is created Pending and its status only ever moves Pending ->
\* Processing -> Completed or Failed: every value assigned to the status of
\* an upload, reprojection or scaling job follows the one before by such a
\* move, Processing is never skipped, no move goes back, and a Completed or
\* Failed status is never assigned over.
C24_StatusMoves ==
    [][\A j \in DOMAIN jobs' :
          LET log == status_log'[j]
          IN  /\ log[1] = PENDING
              /\ \A i \in 1..(Len(log) - 1) : Moves(log[i], log[i + 1])
              /\ jobs'[j].status = Last(log)
              /\ j \in DOMAIN jobs =>
                    /\ IsPrefix(status_log[j], log)
                    /\ jobs[j].status \in Terminal =>
                          jobs'[j].status = jobs[j].status]_vars

C24_Witness ==
    /\ Len(jobs) = 3
    /\ IsReprojection(2) /\ IsScaling(3)
    /\ status_log[1] = <<PENDING, PROCESSING, COMPLETED>>
    /\ status_log[2] = <<PENDING, PROCESSING, FAILED>>
    /\ status_log[3] = <<PENDING, PROCESSING, COMPLETED>>

-----------------------------------------------------------------------------
(* Derived jobs and their parents *)

\* the job has been converted: it is Completed and its output file is there
Converted(j) ==
    /\ jobs[j].status = COMPLETED
    /\ jobs[j].output_path # NoPath
    /\ outputs[jobs[j].output_path] # NoFile

\* C25: a derived job (of reproject_file or of apply_scale_factor) is created
\* only for a parent that exists and has been converted (Completed, with an
\* output); its parent_job_id names that parent, and the parent is still in
\* the store at every later step.
C25_ParentConverted ==
    [][\A j \in DOMAIN jobs' :
          LET parent == jobs'[j].parent_job_id
          IN  parent # NoJob =>
                 /\ parent \in DOMAIN jobs'
                 /\ j \notin DOMAIN jobs =>
                       parent \in DOMAIN jobs /\ Converted(parent)]_vars

-----------------------------------------------------------------------------
(* Chains of scaling jobs *)

\* the product of the factors applied from the original conversion to the
\* output of job j (each scaling job multiplies its parent's output by its
\* own scale_factor)
RECURSIVE CumulativeFactor(_)
CumulativeFactor(j) ==
    IF ~IsScaling(j) THEN Unit
    ELSE Mul(jobs[j].scale_factor, CumulativeFactor(jobs[j].parent_job_id))

\* C27: for every completed scaling job, the first of a chain or derived from
\* the output of an earlier scaling job, the cumulative factor between the
\* coordinates of the original conversion and its output is within
\* [0.9, 1.1], and the scale_factor of its record is that cumulative factor.
C27_ChainInBand ==
    \A j \in DOMAIN jobs :
        (IsScaling(j) /\ Completed(j)) =>
            /\ in_band(CumulativeFactor(j))
            /\ jobs[j].scale_factor = CumulativeFactor(j)

-----------------------------------------------------------------------------
(* Tasks running side by side *)

\* the output the task of `job` writes when nothing else runs: the conversion
\* of its uploaded file, or the scaling of its parent's output `original`
result_alone(job, upload, original) ==
    IF job.scale_factor = NotANumber
        THEN LET result == convert_dxf_to_gis(upload, job.target_crs,
                                              job.output_format)
             IN  JsonFile(result.features, result.crs, result.coordinate_info)
    ELSE scaled_file(apply_scale_to_geojson(load_json(original),
                         job.scale_factor, job.output_format))

\* C26: under every interleaving of requests and task steps, the record of a
\* job and its output file are written by no step but those of its own task
\* (so no task writes another job's record, nor its parent's output), no
\* step changes an uploaded file, and the output of every Completed job is
\* the one its task produces when it runs alone.
C26_NoInterference ==
    [][/\ \A j \in DOMAIN jobs :
             /\ uploads'[j] = uploads[j]
             /\ tasks'[j] = tasks[j] =>
                   jobs'[j] = jobs[j] /\ outputs'[j] = outputs[j]
       /\ \A j \in DOMAIN jobs' :
             jobs'[j].status = COMPLETED =>
                 /\ jobs'[j].output_path = j
                 /\ outputs'[j] =
                       result_alone(jobs'[j], uploads'[jobs'[j].file_path],
                           IF jobs'[j].parent_job_id = NoJob THEN NoFile
                           ELSE outputs'[jobs'[j].parent_job_id])]_vars

\* a scaling job has run from its start to its end while a reprojection job
\* of the same parent waits at its await
C26_Witness ==
    /\ Len(jobs) = 3
    /\ IsReprojection(2) /\ IsScaling(3)
    /\ jobs[2].parent_job_id = 1 /\ jobs[3].parent_job_id = 1
    /\ Completed(1) /\ Completed(3)
    /\ tasks[2].pc = "sleeping"

-----------------------------------------------------------------------------
(* What a request sees of a job *)

\* the job ids a request may name: those of the store and one that is not
RequestedIds == 1..(MaxJobs + 1)

\* C28: in every state a request can observe (the states between the steps,
\* tasks being suspended only at their awaits), a job is Completed exactly
\* when its progress is 100, a Completed job has its output_path set and a
\* Pending job has none, the progress of a job is never lower than in the
\* state observed before, and GET /api/preview and GET /api/download answer
\* with content (200) only for a Completed job.
C28_ObservedConsistent ==
    [][/\ \A j \in DOMAIN jobs' :
             /\ jobs'[j].status = COMPLETED <=> jobs'[j].progress = 100
             /\ jobs'[j].status = COMPLETED => jobs'[j].output_path # NoPath
             /\ jobs'[j].status = PENDING => jobs'[j].output_path = NoPath
             /\ j \in DOMAIN jobs => jobs'[j].progress >= jobs[j].progress
       /\ \A job_id \in RequestedIds :
             \A response \in {preview_result(job_id)',
                              download_result(job_id)'} :
                 response.status_code = 200 =>
                     /\ job_id \in DOMAIN jobs'
                     /\ jobs'[job_id].status = COMPLETED]_vars

\* one job is Completed and is served, one has Failed after its progress had
\* risen, one is Pending
C28_Witness ==
    /\ Len(jobs) = 3
    /\ Completed(1) /\ jobs[1].progress = 100
    /\ preview_result(1).status_code = 200
    /\ download_result(1).status_code = 200
    /\ jobs[2].status = FAILED /\ jobs[2].progress > 0
    /\ jobs[3].status = PENDING
    /\ preview_result(3).status_code = 400
    /\ download_result(4).status_code = 404

-----------------------------------------------------------------------------
(* Every job ends (SpecJobsFair) *)

Ended(j) == j \in DOMAIN jobs /\ jobs[j].status \in Terminal

\* C29: every job created by upload_file, reproject_file or
\* apply_scale_factor eventually is Completed or Failed, its task being run
\* by the scheduler: a conversion that fails, an output format that cannot be
\* written and a parent output that is gone each end the job as Failed.
C29_EveryJobEnds ==
    \A j \in 1..MaxFairJobs : (j \in DOMAIN jobs) ~> Ended(j)

\* a scaling job has Failed for an output of its parent that was removed
\* after the request
C29_Witness ==
    /\ Len(jobs) = 2
    /\ IsScaling(2) /\ jobs[2].status = FAILED
    /\ jobs[2].message = <<"Scale factor application failed",
                           "Original output file not found">>
    /\ outputs[1] = NoFile

=============================================================================
